---- MODULE Spec2Model ----
(***************************************************************************)
(* Producer / worker-pool / retry / metrics pipeline of                    *)
(* benchmark/locust/locust_manager.py (LocustManager) and                  *)
(* benchmark/locust/locust_runner.py (LocustRunner, _worker_process,       *)
(* _execute_bulk_with_retry, _execute_search).                             *)
(*                                                                         *)
(* Wall-clock time is abstracted: every timeout (queue.get(timeout),       *)
(* join(timeout), the collect deadline, the ready barrier) may elapse at   *)
(* any moment it is being waited on.  Latency samples and error strings   *)
(* are kept by their number only.  A bulk body is the sequence of its      *)
(* NDJSON lines, a line being <<"action", id>> or <<"source", id>>.         *)
(***************************************************************************)
EXTENDS Integers, Sequences, FiniteSets, TLC

\* ------------------------------------------------------------- bounds
NumItems == 3
BulkSize == 2
QueueSize == 1
NumWorkers == 2
MaxRetries == 1
MaxCollects == 2
MaxLatency == 3
MaxSample == 3
LongRun == 9
ScenarioDocs == 10
ScenarioRetries == 2

Workers == 0 .. (NumWorkers - 1)
DocIds == 1 .. NumItems

\* RunnerType members (runner_type.py) and the strings a worker dispatches on.
INGEST == "RunnerType.INGEST"
SEARCH == "RunnerType.SEARCH"
SEARCH_WITH_RECALL == "RunnerType.SEARCH_WITH_RECALL"
UNKNOWN == "RunnerType.UNKNOWN"

None == "None"

VARIABLES
    config,          \* the run's immutable inputs, see Configs
    mpc,             \* control thread: position in LocustManager.run
    ppc,             \* producer thread: position in LocustManager.produce
    taken,           \* number of items pulled from data_generator so far
    batch,           \* _produce_batch's local batch (sequence of doc ids)
    queue,           \* self.queue, the bounded payload queue
    total_produced,  \* self._total_produced
    stop_requested,  \* self._stop_requested
    is_producing,    \* self._is_producing
    handler,         \* installed SIGINT handler: "original" or "manager"
    runner,          \* self.runner: None or "LocustRunner"
    tag,             \* LocustRunner.tag, the workers' dispatch tag
    stop_signal,     \* LocustRunner.stop_signal
    ready_count,     \* LocustRunner.ready_count
    workers,         \* LocustRunner.workers (set of worker ids in the list)
    joinIdx,         \* stop(): index of the worker being joined
    metrics_queue,   \* LocustRunner.metrics_queue
    worker_metrics,  \* collect_metrics's local list
    reports,         \* the reports returned by collect_metrics, in call order
    result,          \* <<the report LocustManager.run returned>>, or <<>>
    wpc,             \* per worker: position in _worker_process
    payload,         \* per worker: the payload it dequeued, or NoPayload
    current_body,    \* per worker: _execute_bulk_with_retry's current_body
    current_doc_count, \* per worker: its current_doc_count
    retry_count,     \* per worker: its local retry_count
    metrics,         \* per worker: its RunnerMetrics
    exc,             \* per worker: the exception that ended the process, or None
    issued,          \* history: requests issued for the worker's current unit
    base,            \* history: the worker's metrics when it dequeued the unit
    rbase,           \* history: its metrics.retry_count when it took the unit
    gets,            \* history: per unit (first doc id), times it was dequeued
    enqueued,        \* history: the payloads put on the queue, in order
    late,            \* history: items pulled from the source with the flag set
    discarded,       \* history: the partial batch dropped at line 146
    errs,            \* history: per worker, per attempt of the unit in hand,
                     \*   the documents the attempt reported failed
    lats,            \* per worker: RunnerMetrics.latencies as a list of values
    dicts,           \* per worker: <<the latency fields of to_dict()>>, or <<>>
    agg,             \* <<the latency fields of collect_metrics()>>, or <<>>
    ready,           \* <<what wait_until_ready returned to run>>, or <<>>
    prior            \* history: what the call of run found (queue, counters, runner)

mvars == <<config, mpc, ppc, taken, batch, queue, total_produced,
           stop_requested, is_producing, handler>>
rvars == <<runner, tag, stop_signal, ready_count, workers, joinIdx,
           metrics_queue, worker_metrics, reports, result>>
wvars == <<wpc, payload, current_body, current_doc_count, retry_count, metrics,
           exc>>
hvars == <<issued, base, rbase, gets, enqueued>>
xvars == <<late, discarded, errs>>
pvars == <<lats, dicts, agg>>
bvars == <<ready, prior>>
vars == <<mvars, rvars, wvars, hvars, xvars, pvars, bvars>>

\* ------------------------------------------------------ configurations
(* The inputs of one run.  kwarg is the keyword under which the runner     *)
(* receives the task kind: "runner_type" is LocustManager.run as written   *)
(* (locust_manager.py:252), "tag" is the parameter LocustRunner.__init__   *)
(* declares (locust_runner.py:249).  tagarg is the value handed over: a    *)
(* dispatch string or the Manager's RunnerType member.  block is produce's *)
(* block argument, wait is run's wait_for_completion, items the number of  *)
(* items data_generator yields.                                            *)
Config(kw, rt, ta, b, wt, r, n) ==
    [kwarg |-> kw, runner_type |-> rt, tagarg |-> ta, block |-> b, wait |-> wt,
     max_retries |-> r, items |-> n]

Configs ==
    { Config("runner_type", rt, rt, TRUE, TRUE, MaxRetries, NumItems)
        : rt \in {INGEST, SEARCH, UNKNOWN} }
    \cup
    { Config("tag", INGEST, "ingest", TRUE, TRUE, r, NumItems)
        : r \in {0, MaxRetries} }
    \cup
    { Config("tag", rt[1], rt[2], bw[1], bw[2], MaxRetries, NumItems)
        : rt \in {<<INGEST, "ingest">>, <<SEARCH, "search">>},
          bw \in {<<TRUE, TRUE>>, <<TRUE, FALSE>>, <<FALSE, TRUE>>} }
    \cup
    { Config("tag", INGEST, INGEST, TRUE, TRUE, MaxRetries, NumItems),
      Config("tag", UNKNOWN, "ingest", TRUE, TRUE, MaxRetries, NumItems) }
    \cup
    \* sources that end on a batch boundary, and the empty source
    { Config("tag", INGEST, "ingest", TRUE, TRUE, MaxRetries, n)
        : n \in {0, BulkSize} }
    \cup
    \* the other task kind that produce sends through _produce_single
    { Config("tag", SEARCH_WITH_RECALL, "search", TRUE, TRUE, MaxRetries, 1) }

\* --------------------------------------------------------- bulk bodies
ActionLine(id) == <<"action", id>>
SourceLine(id) == <<"source", id>>

RECURSIVE CreateBulkBody(_)
\* _create_bulk_body: two lines per document, in order.
CreateBulkBody(docs) ==
    IF docs = <<>> THEN <<>>
    ELSE <<ActionLine(Head(docs)), SourceLine(Head(docs))>>
            \o CreateBulkBody(Tail(docs))

BatchPayload(docs) ==
    [body |-> CreateBulkBody(docs), doc_count |-> Len(docs), retry_count |-> 0,
     doc_id |-> 0]

\* Mutant of SinglePayload: a query unit claims to cover two items.
SinglePayloadOfTwo(id) ==
    [body |-> <<<<"query", id>>>>, doc_count |-> 2, retry_count |-> 0,
     doc_id |-> id]

SinglePayload(id) ==
    [body |-> <<<<"query", id>>>>, doc_count |-> 1, retry_count |-> 0,
     doc_id |-> id]

\* No payload / no body: Python's None ('' and None are both falsy bodies).
NoBody == <<>>
NoPayload == [body |-> NoBody, doc_count |-> 0, retry_count |-> 0, doc_id |-> 0]

\* The unit a payload is: the id of the first document it covers.
UnitOf(p) == p.body[1][2]

\* ------------------------------------------------- RunnerMetrics, to_dict
NewMetrics ==
    [success_count |-> 0, fail_count |-> 0, retry_count |-> 0,
     request_count |-> 0, total_docs |-> 0, latencies |-> 0, errors |-> 0]

ToDict(w, m) ==
    [runner_id |-> w, success_count |-> m.success_count,
     fail_count |-> m.fail_count, retry_count |-> m.retry_count,
     request_count |-> m.request_count, total_docs |-> m.total_docs,
     error_count |-> m.errors]

\* ------------------------------------------------ the target's answers
(* A bulk response carries one error flag per submitted item, aligned by   *)
(* index, and errors = TRUE iff some item failed.  A request may instead   *)
(* raise OpenSearchException, or an exception of another class.            *)
NoResponse == [errors |-> FALSE, items |-> <<>>]

BulkResponses(n) ==
    { [errors |-> (\E i \in 1 .. n : it[i]), items |-> it]
        : it \in [1 .. n -> BOOLEAN] }

BulkOutcomes(n) ==
    { [kind |-> "response", resp |-> r] : r \in BulkResponses(n) }
    \cup { [kind |-> "OpenSearchException", resp |-> NoResponse],
           [kind |-> "Exception", resp |-> NoResponse] }

SearchOutcomes == { "response", "OpenSearchException", "Exception" }

RECURSIVE FailedLinesByLine(_, _, _)
\* Mutant of FailedLines: response item i is matched with line i, not pair i.
FailedLinesByLine(lines, items, i) ==
    IF i >= Len(items) THEN <<>>
    ELSE (IF items[i + 1] /\ i + 1 < Len(lines)
            THEN <<lines[i + 1], lines[i + 2]>>
            ELSE <<>>)
         \o FailedLinesByLine(lines, items, i + 1)

RECURSIVE FailedLines(_, _, _)
\* _extract_failed_docs, the loop of lines 66-73 from item i (0-based) on.
FailedLines(lines, items, i) ==
    IF i >= Len(items) THEN <<>>
    ELSE (IF items[i + 1] /\ (i * 2) + 1 < Len(lines)
            THEN <<lines[(i * 2) + 1], lines[(i * 2) + 2]>>
            ELSE <<>>)
         \o FailedLines(lines, items, i + 1)

FailedCount(items) == Cardinality({ i \in 1 .. Len(items) : items[i] })

\* Mutant of ExtractFailedDocs: the whole body is handed back for the retry.
ExtractFailedDocsWhole(bulk_body, response) ==
    IF ~response.errors THEN <<NoBody, 0>>
    ELSE <<bulk_body, FailedCount(response.items)>>

\* _extract_failed_docs: <<failed_body, failed_count>>.
ExtractFailedDocs(bulk_body, response) ==
    IF ~response.errors THEN <<NoBody, 0>>
    ELSE LET fl == FailedLines(bulk_body, response.items, 0)
         IN  <<fl, FailedCount(response.items)>>

\* ------------------------------------------- _execute_bulk_with_retry
\* The while condition of line 95.
LoopCond(body, rc, maxr) == body # NoBody /\ rc <= maxr

\* The retry-budget test of lines 114 and 137.
CanRetry(rc, maxr) == rc < maxr

\* Mutant of Caught: the handler names a class the client never raises.
CaughtNothing(kind) == FALSE

\* except OpenSearchException (lines 131, 168): the classes the handler catches.
Caught(kind) == kind = "OpenSearchException"

\* Mutant of OnBulkResponse: the successes of an attempt with item errors
\* are not counted (line 112 left out).
OnBulkResponseLate(m, body, cnt, rc, maxr, resp) ==
    LET m1 == [m EXCEPT !.latencies = @ + 1, !.request_count = @ + 1,
                        !.total_docs = @ + cnt]
        ex == ExtractFailedDocs(body, resp)
    IN IF resp.errors
       THEN IF ex[1] # NoBody /\ rc < maxr
            THEN [metrics |-> [m1 EXCEPT !.retry_count = @ + 1],
                  body |-> ex[1], cnt |-> ex[2], rc |-> rc + 1, again |-> TRUE]
            ELSE [metrics |-> [m1 EXCEPT !.fail_count = @ + ex[2]],
                  body |-> body, cnt |-> cnt, rc |-> rc, again |-> FALSE]
       ELSE [metrics |-> [m1 EXCEPT !.success_count = @ + cnt],
             body |-> body, cnt |-> cnt, rc |-> rc, again |-> FALSE]

\* Mutant of OnBulkResponse: retry_count counts the documents sent again
\* (line 119 adding failed_count), not the attempt.
OnBulkResponseDocs(m, body, cnt, rc, maxr, resp) ==
    LET m1 == [m EXCEPT !.latencies = @ + 1, !.request_count = @ + 1,
                        !.total_docs = @ + cnt]
        ex == ExtractFailedDocs(body, resp)
    IN IF resp.errors
       THEN LET m2 == [m1 EXCEPT !.success_count = @ + (cnt - ex[2])]
            IN IF ex[1] # NoBody /\ rc < maxr
               THEN [metrics |-> [m2 EXCEPT !.retry_count = @ + ex[2]],
                     body |-> ex[1], cnt |-> ex[2], rc |-> rc + 1, again |-> TRUE]
               ELSE [metrics |-> [m2 EXCEPT !.fail_count = @ + ex[2]],
                     body |-> body, cnt |-> cnt, rc |-> rc, again |-> FALSE]
       ELSE [metrics |-> [m1 EXCEPT !.success_count = @ + cnt],
             body |-> body, cnt |-> cnt, rc |-> rc, again |-> FALSE]

(* One pass of the loop body with a response (lines 103-129).  The result  *)
(* is the new metrics with the locals, and again whether the loop goes on. *)
OnBulkResponse(m, body, cnt, rc, maxr, resp) ==
    LET m1 == [m EXCEPT !.latencies = @ + 1, !.request_count = @ + 1,
                        !.total_docs = @ + cnt]
        ex == ExtractFailedDocs(body, resp)
    IN IF resp.errors
       THEN LET m2 == [m1 EXCEPT !.success_count = @ + (cnt - ex[2])]
            IN IF ex[1] # NoBody /\ CanRetry(rc, maxr)
               THEN [metrics |-> [m2 EXCEPT !.retry_count = @ + 1],
                     body |-> ex[1], cnt |-> ex[2], rc |-> rc + 1, again |-> TRUE]
               ELSE [metrics |-> [m2 EXCEPT !.fail_count = @ + ex[2]],
                     body |-> body, cnt |-> cnt, rc |-> rc, again |-> FALSE]
       ELSE [metrics |-> [m1 EXCEPT !.success_count = @ + cnt],
             body |-> body, cnt |-> cnt, rc |-> rc, again |-> FALSE]

\* Mutant of OnBulkException: the local retry_count is not advanced
\* (line 138 left out), so a raising request is retried without bound.
OnBulkExceptionNoCount(m, body, cnt, rc, maxr) ==
    LET m1 == [m EXCEPT !.latencies = @ + 1, !.request_count = @ + 1,
                        !.errors = @ + 1]
    IN IF rc < maxr
       THEN [metrics |-> [m1 EXCEPT !.retry_count = @ + 1],
             body |-> body, cnt |-> cnt, rc |-> rc, again |-> TRUE]
       ELSE [metrics |-> [m1 EXCEPT !.fail_count = @ + cnt],
             body |-> body, cnt |-> cnt, rc |-> rc, again |-> FALSE]

\* Mutant of OnBulkException: a sub-batch given up after an exception is
\* counted as one failure, whatever the number of its documents.
OnBulkExceptionFailsOne(m, body, cnt, rc, maxr) ==
    LET m1 == [m EXCEPT !.latencies = @ + 1, !.request_count = @ + 1,
                        !.errors = @ + 1]
    IN IF rc < maxr
       THEN [metrics |-> [m1 EXCEPT !.retry_count = @ + 1],
             body |-> body, cnt |-> cnt, rc |-> rc + 1, again |-> TRUE]
       ELSE [metrics |-> [m1 EXCEPT !.fail_count = @ + 1],
             body |-> body, cnt |-> cnt, rc |-> rc, again |-> FALSE]

\* One pass of the loop body with a caught exception (lines 131-144).
OnBulkException(m, body, cnt, rc, maxr) ==
    LET m1 == [m EXCEPT !.latencies = @ + 1, !.request_count = @ + 1,
                        !.errors = @ + 1]
    IN IF CanRetry(rc, maxr)
       THEN [metrics |-> [m1 EXCEPT !.retry_count = @ + 1],
             body |-> body, cnt |-> cnt, rc |-> rc + 1, again |-> TRUE]
       ELSE [metrics |-> [m1 EXCEPT !.fail_count = @ + cnt],
             body |-> body, cnt |-> cnt, rc |-> rc, again |-> FALSE]

\* ------------------------------------------------------ _execute_search
\* Mutant of OnSearchResponse: the latency of an answered query is not kept.
OnSearchResponseNoSample(m) ==
    [m EXCEPT !.request_count = @ + 1,
              !.total_docs = @ + 1, !.success_count = @ + 1]

\* Lines 156-165: the request was answered.
OnSearchResponse(m) ==
    [m EXCEPT !.latencies = @ + 1, !.request_count = @ + 1,
              !.total_docs = @ + 1, !.success_count = @ + 1]

\* Mutant of OnSearchException: the failed query is booked as a retry.
OnSearchExceptionRetries(m) ==
    [m EXCEPT !.latencies = @ + 1, !.request_count = @ + 1,
              !.errors = @ + 1, !.retry_count = @ + 1, !.total_docs = @ + 1]

\* Lines 168-175: the request raised OpenSearchException.
OnSearchException(m) ==
    [m EXCEPT !.latencies = @ + 1, !.request_count = @ + 1,
              !.errors = @ + 1, !.fail_count = @ + 1, !.total_docs = @ + 1]

\* ------------------------------------------------------------- workers
(* How a worker process ended: "exited" after finalize, "crashed" by an     *)
(* exception, "terminated" by stop() after its join timed out, "killed" by *)
(* stop(force=True).                                                       *)
Dead == {"exited", "crashed", "terminated", "killed"}
Alive(w) == wpc[w] \notin (Dead \cup {"none"})

\* Mutant of Terminate: terminate() is never called.
TerminateNone(ws, how) == wpc

\* Lines 304-306, 311-312: if p.is_alive(): p.terminate(), for the workers ws.
Terminate(ws, how) ==
    [w \in Workers |-> IF w \in ws /\ Alive(w) THEN how ELSE wpc[w]]

\* The documents a bulk response marks failed, by the position of their item.
FailedIds(body, resp) ==
    { body[2 * i][2] : i \in { j \in 1 .. Len(resp.items) : resp.items[j] } }

\* Mutant of Dequeue: the unit taken is put back at the end of the queue.
DequeueRequeue(q) == Append(Tail(q), Head(q))

\* payload_queue.get: what is left in the queue once its head was taken.
Dequeue(q) == Tail(q)

\* Mutant of LoopExits: the worker also leaves when it finds the queue empty.
LoopExitsOnEmpty(stop, q) == stop \/ q = <<>>

\* Line 202, while not stop_signal.value: when the worker leaves its loop.
LoopExits(stop, q) == stop

\* Mutant of Push: the accumulator is put on the queue twice.
PushTwice(mq, d) == Append(Append(mq, d), d)

\* Line 233, metrics_queue.put(d).
Push(mq, d) == Append(mq, d)

\* The worker's locals once a unit is finished (dead values, normalised).
Idle(w) ==
    /\ payload' = [payload EXCEPT ![w] = NoPayload]
    /\ current_body' = [current_body EXCEPT ![w] = NoBody]
    /\ current_doc_count' = [current_doc_count EXCEPT ![w] = 0]
    /\ retry_count' = [retry_count EXCEPT ![w] = 0]

\* Mutant of ReadyIncrement: the worker does not signal that it is ready.
ReadyIncrementNone(c) == c

\* Lines 194-195: with ready_signal.get_lock(): ready_signal.value += 1.
ReadyIncrement(c) == c + 1

\* Lines 193-200: signal readiness, create the local metrics.
WorkerReady(w) ==
    /\ wpc[w] = "start"
    /\ ready_count' = ReadyIncrement(ready_count)
    /\ metrics' = [metrics EXCEPT ![w] = NewMetrics]
    /\ wpc' = [wpc EXCEPT ![w] = "loop"]
    /\ UNCHANGED <<mvars, runner, tag, stop_signal, workers, joinIdx,
                   metrics_queue, worker_metrics, reports, result,
                   payload, current_body, current_doc_count, retry_count, exc, hvars>>
    /\ UNCHANGED <<xvars, pvars>>
    /\ UNCHANGED bvars

\* Line 202: the loop test.
WorkerCheckStop(w) ==
    /\ wpc[w] = "loop"
    /\ wpc' = [wpc EXCEPT ![w] = IF LoopExits(stop_signal, queue) THEN "finalize"
                                  ELSE "get"]
    /\ UNCHANGED <<mvars, rvars, payload, current_body, current_doc_count,
                   retry_count, metrics, exc, hvars>>
    /\ UNCHANGED <<xvars, pvars>>
    /\ UNCHANGED bvars

\* Lines 204-207: queue.get timed out on an empty queue; sleep, loop again.
WorkerGetEmpty(w) ==
    /\ wpc[w] = "get"
    /\ queue = <<>>
    /\ wpc' = [wpc EXCEPT ![w] = "loop"]
    /\ UNCHANGED <<mvars, rvars, payload, current_body, current_doc_count,
                   retry_count, metrics, exc, hvars>>
    /\ UNCHANGED <<xvars, pvars>>
    /\ UNCHANGED bvars

\* Lines 204-228: dequeue one payload and dispatch on the tag.
WorkerGet(w) ==
    /\ wpc[w] = "get"
    /\ queue # <<>>
    /\ LET p == Head(queue) IN
        /\ queue' = Dequeue(queue)
        /\ gets' = [gets EXCEPT ![UnitOf(p)] = @ + 1]
        /\ issued' = [issued EXCEPT ![w] = 0]
        /\ errs' = [errs EXCEPT ![w] = <<>>]
        /\ base' = [base EXCEPT ![w] = metrics[w].success_count + metrics[w].fail_count]
        /\ IF tag = "ingest" /\ LoopCond(p.body, 0, config.max_retries)
           THEN /\ wpc' = [wpc EXCEPT ![w] = "bulk"]
                /\ rbase' = [rbase EXCEPT ![w] = metrics[w].retry_count]
                /\ payload' = [payload EXCEPT ![w] = p]
                /\ current_body' = [current_body EXCEPT ![w] = p.body]
                /\ current_doc_count' = [current_doc_count EXCEPT ![w] = p.doc_count]
                /\ retry_count' = [retry_count EXCEPT ![w] = 0]
           ELSE IF tag = "search"
           THEN /\ wpc' = [wpc EXCEPT ![w] = "search"]
                /\ payload' = [payload EXCEPT ![w] = p]
                /\ UNCHANGED <<current_body, current_doc_count, retry_count, rbase>>
           ELSE /\ wpc' = [wpc EXCEPT ![w] = "loop"]
                /\ UNCHANGED <<payload, current_body, current_doc_count, retry_count,
                               rbase>>
    /\ UNCHANGED <<config, mpc, ppc, taken, batch, total_produced, stop_requested,
                   is_producing, handler, rvars, metrics, exc, enqueued>>
    /\ UNCHANGED <<late, discarded, pvars>>
    /\ UNCHANGED bvars

\* Lines 95-144: one request of _execute_bulk_with_retry and its accounting.
WorkerBulk(w) ==
    /\ wpc[w] = "bulk"
    /\ \E out \in BulkOutcomes(current_doc_count[w]) :
        /\ issued' = [issued EXCEPT ![w] = @ + 1]
        /\ IF out.kind = "response" \/ Caught(out.kind)
           THEN LET r == IF out.kind = "response"
                         THEN OnBulkResponse(metrics[w], current_body[w],
                                  current_doc_count[w], retry_count[w],
                                  config.max_retries, out.resp)
                         ELSE OnBulkException(metrics[w], current_body[w],
                                  current_doc_count[w], retry_count[w],
                                  config.max_retries)
                IN /\ metrics' = [metrics EXCEPT ![w] = r.metrics]
                   /\ IF r.again /\ LoopCond(r.body, r.rc, config.max_retries)
                      THEN /\ current_body' = [current_body EXCEPT ![w] = r.body]
                           /\ current_doc_count' = [current_doc_count EXCEPT ![w] = r.cnt]
                           /\ retry_count' = [retry_count EXCEPT ![w] = r.rc]
                           /\ errs' = [errs EXCEPT ![w] = Append(@,
                                  IF out.kind = "response"
                                  THEN FailedIds(current_body[w], out.resp)
                                  ELSE {-1})]
                           /\ UNCHANGED <<wpc, payload, rbase>>
                      ELSE /\ wpc' = [wpc EXCEPT ![w] = "loop"]
                           /\ errs' = [errs EXCEPT ![w] = <<>>]
                           /\ rbase' = [rbase EXCEPT ![w] = 0]
                           /\ Idle(w)
                   /\ UNCHANGED exc
           ELSE \* the exception leaves _worker_process: the process dies
                /\ wpc' = [wpc EXCEPT ![w] = "crashed"]
                /\ exc' = [exc EXCEPT ![w] = out.kind]
                /\ UNCHANGED <<metrics, payload, current_body, current_doc_count,
                               retry_count, errs, rbase>>
    /\ UNCHANGED <<mvars, rvars, base, gets, enqueued>>
    /\ UNCHANGED <<late, discarded, pvars>>
    /\ UNCHANGED bvars

\* Lines 155-175: the single request of _execute_search.
WorkerSearch(w) ==
    /\ wpc[w] = "search"
    /\ \E kind \in SearchOutcomes :
        /\ issued' = [issued EXCEPT ![w] = @ + 1]
        /\ IF kind = "response" \/ Caught(kind)
           THEN /\ metrics' = [metrics EXCEPT ![w] =
                        IF kind = "response" THEN OnSearchResponse(@)
                        ELSE OnSearchException(@)]
                /\ wpc' = [wpc EXCEPT ![w] = "loop"]
                /\ Idle(w)
                /\ UNCHANGED exc
           ELSE /\ wpc' = [wpc EXCEPT ![w] = "crashed"]
                /\ exc' = [exc EXCEPT ![w] = kind]
                /\ UNCHANGED <<metrics, payload, current_body, current_doc_count,
                               retry_count>>
    /\ UNCHANGED <<mvars, rvars, base, rbase, gets, enqueued>>
    /\ UNCHANGED <<xvars, pvars>>
    /\ UNCHANGED bvars

\* Lines 231-234: stamp the end time, put to_dict() on the metrics queue.
WorkerFinalize(w) ==
    /\ wpc[w] = "finalize"
    /\ metrics_queue' = Push(metrics_queue, ToDict(w, metrics[w]))
    /\ wpc' = [wpc EXCEPT ![w] = "exited"]
    /\ UNCHANGED <<mvars, runner, tag, stop_signal, ready_count, workers, joinIdx,
                   worker_metrics, reports, result, payload, current_body,
                   current_doc_count, retry_count, metrics, exc, hvars>>
    /\ UNCHANGED <<xvars, pvars>>
    /\ UNCHANGED bvars

\* ------------------------------------------------------------ producer
\* Mutant of Full: the queue was built without maxsize and is never full.
FullNever(q) == FALSE

\* queue.full(), and the condition under which a blocking put waits.
Full(q) == Len(q) >= QueueSize

\* queue.put of payload p that found room, with the history of the unit.
Enqueue(p) ==
    /\ queue' = Append(queue, p)
    /\ enqueued' = Append(enqueued, p)

\* produce, lines 198-204: set the flag and dispatch on the runner type.
ProduceBegin ==
    /\ ppc = "start"
    /\ is_producing' = TRUE
    /\ ppc' = IF config.runner_type = INGEST THEN "batch_loop"
              ELSE IF config.runner_type \in {SEARCH, SEARCH_WITH_RECALL}
                   THEN "single_loop"
                   ELSE "end"
    /\ UNCHANGED <<config, mpc, taken, batch, queue, total_produced,
                   stop_requested, handler, rvars, wvars, hvars>>
    /\ UNCHANGED <<xvars, pvars>>
    /\ UNCHANGED bvars

\* Mutant of Breaks: the loop over the source never tests the flag.
BreaksNever(stop) == FALSE

\* Lines 121-122 and 169-170: if self._stop_requested: break.
Breaks(stop) == stop

\* Mutant of BatchFull: a batch is put only once it exceeds bulk_size.
BatchFullLate(b) == Len(b) > BulkSize

\* Line 125: len(batch) >= self.bulk_size.
BatchFull(b) == Len(b) >= BulkSize

\* Mutant of FlushesTrailing: the trailing batch is put whatever the flag says.
FlushesTrailingAlways(b, stop) == b # <<>>

\* Line 146: batch and len(batch) > 0 and not self._stop_requested.
FlushesTrailing(b, stop) == b # <<>> /\ ~stop

\* _produce_batch, lines 120-130: pull the next item, test the flag, append.
ProduceBatchNext ==
    /\ ppc = "batch_loop"
    /\ IF taken < config.items
       THEN /\ taken' = taken + 1
            /\ late' = IF stop_requested THEN late + 1 ELSE late
            /\ IF Breaks(stop_requested)
               THEN /\ ppc' = "batch_after"
                    /\ UNCHANGED batch
               ELSE /\ batch' = Append(batch, taken + 1)
                    /\ ppc' = IF BatchFull(batch') THEN "batch_put"
                              ELSE "batch_loop"
       ELSE /\ ppc' = "batch_after"
            /\ UNCHANGED <<taken, batch, late>>
    /\ UNCHANGED <<config, mpc, queue, total_produced, stop_requested,
                   is_producing, handler, rvars, wvars, hvars>>
    /\ UNCHANGED <<discarded, errs, pvars>>
    /\ UNCHANGED bvars

\* Mutant of Counted: the producer counts one per unit it has put.
CountedUnits(tp, n) == tp + 1

\* Lines 135, 153, 180: self._total_produced += len(batch), or += 1.
Counted(tp, n) == tp + n

\* _produce_batch, lines 132-143: put a full batch.
ProduceBatchPut ==
    /\ ppc = "batch_put"
    /\ IF config.block
       THEN /\ ~Full(queue)
            /\ Enqueue(BatchPayload(batch))
            /\ total_produced' = Counted(total_produced, Len(batch))
       ELSE IF ~Full(queue)
            THEN /\ Enqueue(BatchPayload(batch))
                 /\ total_produced' = Counted(total_produced, Len(batch))
            ELSE UNCHANGED <<queue, enqueued, total_produced>>
    /\ batch' = <<>>
    /\ ppc' = "batch_loop"
    /\ UNCHANGED <<config, mpc, taken, stop_requested, is_producing, handler,
                   rvars, wvars, issued, base, rbase, gets>>
    /\ UNCHANGED <<xvars, pvars>>
    /\ UNCHANGED bvars

\* _produce_batch, line 146: is there a trailing batch to flush?
ProduceBatchAfter ==
    /\ ppc = "batch_after"
    /\ ppc' = IF FlushesTrailing(batch, stop_requested) THEN "batch_flush"
              ELSE "end"
    /\ discarded' = IF batch # <<>> /\ stop_requested THEN batch ELSE discarded
    /\ UNCHANGED <<config, mpc, taken, batch, queue, total_produced,
                   stop_requested, is_producing, handler, rvars, wvars, hvars>>
    /\ UNCHANGED <<late, errs, pvars>>
    /\ UNCHANGED bvars

\* _produce_batch, lines 147-153: queue.put(payload, block=block).
ProduceBatchFlush ==
    /\ ppc = "batch_flush"
    /\ IF config.block
       THEN /\ ~Full(queue)
            /\ Enqueue(BatchPayload(batch))
            /\ total_produced' = Counted(total_produced, Len(batch))
            /\ ppc' = "end"
       ELSE IF ~Full(queue)
            THEN /\ Enqueue(BatchPayload(batch))
                 /\ total_produced' = Counted(total_produced, Len(batch))
                 /\ ppc' = "end"
            ELSE \* queue.Full is raised and leaves produce
                 /\ ppc' = "raised"
                 /\ UNCHANGED <<queue, enqueued, total_produced>>
    /\ UNCHANGED <<config, mpc, taken, batch, stop_requested, is_producing,
                   handler, rvars, wvars, issued, base, rbase, gets>>
    /\ UNCHANGED <<xvars, pvars>>
    /\ UNCHANGED bvars

\* _produce_single, lines 168-177: pull the next item, test the flag.
ProduceSingleNext ==
    /\ ppc = "single_loop"
    /\ IF taken < config.items
       THEN /\ taken' = taken + 1
            /\ late' = IF stop_requested THEN late + 1 ELSE late
            /\ ppc' = IF Breaks(stop_requested) THEN "end" ELSE "single_put"
       ELSE /\ ppc' = "end"
            /\ UNCHANGED <<taken, late>>
    /\ UNCHANGED <<config, mpc, batch, queue, total_produced, stop_requested,
                   is_producing, handler, rvars, wvars, hvars>>
    /\ UNCHANGED <<discarded, errs, pvars>>
    /\ UNCHANGED bvars

\* _produce_single, lines 179-180: queue.put(payload), always blocking.
ProduceSinglePut ==
    /\ ppc = "single_put"
    /\ ~Full(queue)
    /\ Enqueue(SinglePayload(taken))
    /\ total_produced' = Counted(total_produced, 1)
    /\ ppc' = "single_loop"
    /\ UNCHANGED <<config, mpc, taken, batch, stop_requested, is_producing,
                   handler, rvars, wvars, issued, base, rbase, gets>>
    /\ UNCHANGED <<xvars, pvars>>
    /\ UNCHANGED bvars

\* produce, line 205.
ProduceEnd ==
    /\ ppc = "end"
    /\ is_producing' = FALSE
    /\ ppc' = "done"
    /\ UNCHANGED <<config, mpc, taken, batch, queue, total_produced,
                   stop_requested, handler, rvars, wvars, hvars>>
    /\ UNCHANGED <<xvars, pvars>>
    /\ UNCHANGED bvars

\* ------------------------------------------------------ collect_metrics
RECURSIVE SumOfButLast(_, _)
\* Mutant of SumOf: the sum stops one accumulator short.
SumOfButLast(ms, f) ==
    IF Len(ms) <= 1 THEN 0 ELSE Head(ms)[f] + SumOfButLast(Tail(ms), f)

RECURSIVE SumOf(_, _)
\* sum(m[f] for m in worker_metrics), lines 348-353.
SumOf(ms, f) == IF ms = <<>> THEN 0 ELSE Head(ms)[f] + SumOf(Tail(ms), f)

\* total_success / (total_success + total_fail) as a fraction, 0 as 0/1.
Rate(succ, fail) ==
    IF succ + fail > 0 THEN [num |-> succ, den |-> succ + fail]
    ELSE [num |-> 0, den |-> 1]

\* Lines 337-382: the report over the accumulators received.
Aggregate(ms) ==
    IF ms = <<>>
    THEN [total_success |-> 0, total_fail |-> 0, total_docs |-> 0,
          success_rate |-> Rate(0, 0), worker_count |-> NumWorkers,
          per_worker |-> <<>>]
    ELSE [total_success |-> SumOf(ms, "success_count"),
          total_fail |-> SumOf(ms, "fail_count"),
          total_docs |-> SumOf(ms, "total_docs"),
          total_requests |-> SumOf(ms, "request_count"),
          total_retries |-> SumOf(ms, "retry_count"),
          total_errors |-> SumOf(ms, "error_count"),
          success_rate |-> Rate(SumOf(ms, "success_count"), SumOf(ms, "fail_count")),
          worker_count |-> Len(ms),
          per_worker |-> ms]

\* Line 324 (and a later call of runner.collect_metrics by run's caller).
CollectBegin ==
    /\ \/ mpc = "collect"
       \/ mpc = "returned" /\ runner # None /\ Len(reports) < MaxCollects
    /\ worker_metrics' = <<>>
    /\ mpc' = "collecting"
    /\ UNCHANGED <<config, ppc, taken, batch, queue, total_produced,
                   stop_requested, is_producing, handler, runner, tag,
                   stop_signal, ready_count, workers, joinIdx, metrics_queue,
                   reports, result, wvars, hvars>>
    /\ UNCHANGED <<xvars, pvars>>
    /\ UNCHANGED bvars

\* Mutant of Receive: the accumulator read stays on the metrics queue.
ReceiveKeep(mq) == mq

\* metrics_queue.get: what is left in the queue once its head was taken.
Receive(mq) == Tail(mq)

\* Lines 330-333: one accumulator taken from the metrics queue.
CollectGet ==
    /\ mpc = "collecting"
    /\ Len(worker_metrics) < NumWorkers
    /\ metrics_queue # <<>>
    /\ worker_metrics' = Append(worker_metrics, Head(metrics_queue))
    /\ metrics_queue' = Receive(metrics_queue)
    /\ UNCHANGED <<mvars, runner, tag, stop_signal, ready_count, workers,
                   joinIdx, reports, result, wvars, hvars>>
    /\ UNCHANGED <<xvars, pvars>>
    /\ UNCHANGED bvars

\* Mutant of LoopEnds: the loop has no deadline and ends only when all came.
LoopEndsWhenAll(ms) == Len(ms) >= NumWorkers

(* Lines 328-330, the negation of the while test: expected_workers have    *)
(* been received, or the deadline has passed, which it may at any moment.  *)
LoopEnds(ms) == Len(ms) >= NumWorkers \/ TRUE

\* Lines 330, 337-382: all expected arrived, or the deadline passed.
CollectReturn ==
    /\ mpc = "collecting"
    /\ LoopEnds(worker_metrics)
    /\ reports' = Append(reports, Aggregate(worker_metrics))
    /\ worker_metrics' = <<>>
    /\ mpc' = IF result = <<>> THEN "finish" ELSE "returned"
    /\ UNCHANGED <<config, ppc, taken, batch, queue, total_produced,
                   stop_requested, is_producing, handler, runner, tag,
                   stop_signal, ready_count, workers, joinIdx, metrics_queue,
                   result, wvars, hvars>>
    /\ UNCHANGED <<xvars, pvars>>
    /\ UNCHANGED bvars

\* ----------------------------------------------------- LocustRunner.stop
\* Line 300 of stop(force=False), as LocustManager.run calls it.
StopBegin ==
    /\ mpc = "stop"
    /\ stop_signal' = TRUE
    /\ joinIdx' = 0
    /\ mpc' = "joining"
    /\ UNCHANGED <<config, ppc, taken, batch, queue, total_produced,
                   stop_requested, is_producing, handler, runner, tag,
                   ready_count, workers, metrics_queue, worker_metrics,
                   reports, result, wvars, hvars>>
    /\ UNCHANGED <<xvars, pvars>>
    /\ UNCHANGED bvars

\* Lines 309-311: join(timeout=5) returned because the worker has ended.
StopJoined ==
    /\ mpc = "joining"
    /\ joinIdx \in workers
    /\ ~Alive(joinIdx)
    /\ joinIdx' = joinIdx + 1
    /\ UNCHANGED <<mvars, runner, tag, stop_signal, ready_count, workers,
                   metrics_queue, worker_metrics, reports, result, wvars, hvars>>
    /\ UNCHANGED <<xvars, pvars>>
    /\ UNCHANGED bvars

\* Lines 310-312: the join timed out with the worker alive; terminate it.
StopJoinTimeout ==
    /\ mpc = "joining"
    /\ joinIdx \in workers
    /\ Alive(joinIdx)
    /\ wpc' = Terminate({joinIdx}, "terminated")
    /\ joinIdx' = joinIdx + 1
    /\ UNCHANGED <<mvars, runner, tag, stop_signal, ready_count, workers,
                   metrics_queue, worker_metrics, reports, result, payload,
                   current_body, current_doc_count, retry_count, metrics, exc, hvars>>
    /\ UNCHANGED <<xvars, pvars>>
    /\ UNCHANGED bvars

\* Line 314: the loop over self.workers is over; clear the list.
StopClear ==
    /\ mpc = "joining"
    /\ joinIdx \notin workers
    /\ workers' = {}
    /\ mpc' = "collect"
    /\ UNCHANGED <<config, ppc, taken, batch, queue, total_produced,
                   stop_requested, is_producing, handler, runner, tag,
                   stop_signal, ready_count, joinIdx, metrics_queue,
                   worker_metrics, reports, result, wvars, hvars>>
    /\ UNCHANGED <<xvars, pvars>>
    /\ UNCHANGED bvars

\* ---------------------------------------------------- LocustManager.run
\* Mutant of Finally: the handler installed by run is left in place.
FinallyKeeps(h) == h

\* Lines 294-296 (and 77): signal.signal(SIGINT, self._original_sigint).
Finally(h) == "original"

\* The parameters LocustRunner.__init__ declares (lines 243-250).
CtorParams == {"payload_queue", "index_name", "max_retries", "num_workers", "tag"}

\* Lines 231-233.
RunReset ==
    /\ mpc = "idle"
    /\ total_produced' = 0
    /\ stop_requested' = FALSE
    /\ is_producing' = FALSE
    /\ mpc' = "clear"
    /\ UNCHANGED <<config, ppc, taken, batch, queue, handler, rvars, wvars, hvars>>
    /\ UNCHANGED <<xvars, pvars>>
    /\ UNCHANGED bvars

\* Mutant of Cleared: the leftover units stay in the queue.
ClearedNot(q) == q

\* Lines 236-240: get_nowait() until the queue is empty.
Cleared(q) == <<>>

\* Lines 236-240.
RunClearQueue ==
    /\ mpc = "clear"
    /\ queue' = Cleared(queue)
    /\ mpc' = "install"
    /\ UNCHANGED <<config, ppc, taken, batch, total_produced, stop_requested,
                   is_producing, handler, rvars, wvars, hvars>>
    /\ UNCHANGED <<xvars, pvars>>
    /\ UNCHANGED bvars

\* Line 243.
RunInstallHandler ==
    /\ mpc = "install"
    /\ handler' = "manager"
    /\ mpc' = "construct"
    /\ UNCHANGED <<config, ppc, taken, batch, queue, total_produced,
                   stop_requested, is_producing, rvars, wvars, hvars>>
    /\ UNCHANGED <<xvars, pvars>>
    /\ UNCHANGED bvars

(* Lines 247-253 with LocustRunner.__init__ (243-261).  A keyword the      *)
(* constructor does not declare raises TypeError, which leaves run through *)
(* the finally clause (lines 294-296).                                     *)
RunConstruct ==
    /\ mpc = "construct"
    /\ IF config.kwarg \in CtorParams
       THEN /\ runner' = "LocustRunner"
            /\ tag' = config.tagarg
            /\ stop_signal' = FALSE
            /\ ready_count' = 0
            /\ metrics_queue' = <<>>
            /\ workers' = {}
            /\ mpc' = "start"
            /\ UNCHANGED handler
       ELSE /\ handler' = Finally(handler)
            /\ mpc' = "raised"
            /\ UNCHANGED <<runner, tag, stop_signal, ready_count, metrics_queue,
                           workers>>
    /\ UNCHANGED <<config, ppc, taken, batch, queue, total_produced,
                   stop_requested, is_producing, joinIdx, worker_metrics,
                   reports, result, wvars, hvars>>
    /\ UNCHANGED <<xvars, pvars>>
    /\ UNCHANGED bvars

\* Mutant of Spawned: the last worker is not started.
SpawnedButLast == Workers \ {NumWorkers - 1}

\* Line 265, for i in range(self.num_workers): the workers start() spawns.
Spawned == Workers

\* LocustRunner.start, lines 263-280.
RunnerStart ==
    /\ mpc = "start"
    /\ workers' = Spawned
    /\ wpc' = [w \in Workers |-> IF w \in Spawned THEN "start" ELSE "none"]
    /\ mpc' = "barrier"
    /\ UNCHANGED <<config, ppc, taken, batch, queue, total_produced,
                   stop_requested, is_producing, handler, runner, tag,
                   stop_signal, ready_count, joinIdx, metrics_queue,
                   worker_metrics, reports, result, payload, current_body,
                   current_doc_count, retry_count, metrics, exc, hvars>>
    /\ UNCHANGED <<xvars, pvars>>
    /\ UNCHANGED bvars

\* Mutant of AllReady: wait_until_ready answers True whatever the counter.
AllReadyAlways(rc) == TRUE

(* wait_until_ready, lines 291-296: True once the loop test of line 292     *)
(* finds the counter at num_workers, False when the deadline passes while  *)
(* the counter is below it.                                                *)
AllReady(rc) == rc >= NumWorkers

(* wait_until_ready (282-296) as run uses it (257-259): it returns with    *)
(* all workers ready, or on its timeout; run goes on in both cases.        *)
WaitUntilReady ==
    /\ mpc = "barrier"
    /\ ready' = <<AllReady(ready_count)>>
    /\ mpc' = "spawn"
    /\ UNCHANGED <<config, ppc, taken, batch, queue, total_produced,
                   stop_requested, is_producing, handler, rvars, wvars, hvars>>
    /\ UNCHANGED <<xvars, pvars, prior>>

\* Lines 262-267: the producer thread is started.
RunSpawnProducer ==
    /\ mpc = "spawn"
    /\ ppc' = "start"
    /\ mpc' = "join"
    /\ UNCHANGED <<config, taken, batch, queue, total_produced, stop_requested,
                   is_producing, handler, rvars, wvars, hvars>>
    /\ UNCHANGED <<xvars, pvars>>
    /\ UNCHANGED bvars

\* Lines 270-277: the producer thread has ended.
RunJoinProducer ==
    /\ mpc = "join"
    /\ ppc \in {"done", "raised"}
    /\ mpc' = IF ~stop_requested /\ config.wait THEN "drain" ELSE "stop"
    /\ UNCHANGED <<config, ppc, taken, batch, queue, total_produced,
                   stop_requested, is_producing, handler, rvars, wvars, hvars>>
    /\ UNCHANGED <<xvars, pvars>>
    /\ UNCHANGED bvars

\* Mutant of DrainEnds: run does not wait for the queue to drain.
DrainEndsAtOnce(q, stop) == TRUE

\* Line 279, the negation of: not self.queue.empty() and not self._stop_requested.
DrainEnds(q, stop) == q = <<>> \/ stop

\* Lines 279-284: the wait for the queue to drain, then the two seconds.
RunDrain ==
    /\ mpc = "drain"
    /\ DrainEnds(queue, stop_requested)
    /\ mpc' = "stop"
    /\ UNCHANGED <<config, ppc, taken, batch, queue, total_produced,
                   stop_requested, is_producing, handler, rvars, wvars, hvars>>
    /\ UNCHANGED <<xvars, pvars>>
    /\ UNCHANGED bvars

\* Lines 290-296: attach total_produced, restore the handler, return.
RunReturn ==
    /\ mpc = "finish"
    /\ result' = <<[report |-> reports[Len(reports)],
                    total_produced |-> total_produced]>>
    /\ handler' = Finally(handler)
    /\ mpc' = "returned"
    /\ UNCHANGED <<config, ppc, taken, batch, queue, total_produced,
                   stop_requested, is_producing, runner, tag, stop_signal,
                   ready_count, workers, joinIdx, metrics_queue, worker_metrics,
                   reports, wvars, hvars>>
    /\ UNCHANGED <<xvars, pvars>>
    /\ UNCHANGED bvars

(* _handle_sigint, lines 70-77, with stop(force=True), lines 300-306, 314.  *)
(* The handler runs in the control thread while run has it installed.      *)
Sigint ==
    /\ handler = "manager"
    /\ stop_requested' = TRUE
    /\ IF runner # None
       THEN /\ stop_signal' = TRUE
            /\ wpc' = Terminate(workers, "killed")
            /\ workers' = {}
       ELSE UNCHANGED <<stop_signal, wpc, workers>>
    /\ handler' = "original"
    /\ UNCHANGED <<config, mpc, ppc, taken, batch, queue, total_produced,
                   is_producing, runner, tag, ready_count, joinIdx,
                   metrics_queue, worker_metrics, reports, result, payload,
                   current_body, current_doc_count, retry_count, metrics, exc, hvars>>
    /\ UNCHANGED <<xvars, pvars>>
    /\ UNCHANGED bvars

\* ------------------------------------------------------- specification
\* What the first call of run on a new Manager finds.
FirstCall ==
    [queue |-> <<>>, total_produced |-> 0, stop_requested |-> FALSE,
     runner |-> None]

\* The state after construction, but for the inputs config and lats.
InitState ==
    /\ mpc = "idle"
    /\ ppc = "idle"
    /\ taken = 0
    /\ batch = <<>>
    /\ queue = <<>>
    /\ total_produced = 0
    /\ stop_requested = FALSE
    /\ is_producing = FALSE
    /\ handler = "original"
    /\ runner = None
    /\ tag = None
    /\ stop_signal = FALSE
    /\ ready_count = 0
    /\ workers = {}
    /\ joinIdx = 0
    /\ metrics_queue = <<>>
    /\ worker_metrics = <<>>
    /\ reports = <<>>
    /\ result = <<>>
    /\ wpc = [w \in Workers |-> "none"]
    /\ payload = [w \in Workers |-> NoPayload]
    /\ current_body = [w \in Workers |-> NoBody]
    /\ current_doc_count = [w \in Workers |-> 0]
    /\ retry_count = [w \in Workers |-> 0]
    /\ metrics = [w \in Workers |-> NewMetrics]
    /\ exc = [w \in Workers |-> None]
    /\ issued = [w \in Workers |-> 0]
    /\ base = [w \in Workers |-> 0]
    /\ rbase = [w \in Workers |-> 0]
    /\ gets = [u \in DocIds |-> 0]
    /\ enqueued = <<>>
    /\ late = 0
    /\ discarded = <<>>
    /\ errs = [w \in Workers |-> <<>>]
    /\ dicts = [w \in Workers |-> <<>>]
    /\ agg = <<>>
    /\ ready = <<>>
    /\ prior = FirstCall

Init ==
    /\ config \in Configs
    /\ lats = [w \in Workers |-> <<>>]
    /\ InitState

WorkerStep ==
    \E w \in Workers :
        \/ WorkerReady(w)
        \/ WorkerCheckStop(w)
        \/ WorkerGetEmpty(w)
        \/ WorkerGet(w)
        \/ WorkerBulk(w)
        \/ WorkerSearch(w)
        \/ WorkerFinalize(w)

ProducerStep ==
    \/ ProduceBegin
    \/ ProduceBatchNext
    \/ ProduceBatchPut
    \/ ProduceBatchAfter
    \/ ProduceBatchFlush
    \/ ProduceSingleNext
    \/ ProduceSinglePut
    \/ ProduceEnd

ManagerStep ==
    \/ RunReset
    \/ RunClearQueue
    \/ RunInstallHandler
    \/ RunConstruct
    \/ RunnerStart
    \/ WaitUntilReady
    \/ RunSpawnProducer
    \/ RunJoinProducer
    \/ RunDrain
    \/ StopBegin
    \/ StopJoined
    \/ StopJoinTimeout
    \/ StopClear
    \/ CollectBegin
    \/ CollectGet
    \/ CollectReturn
    \/ RunReturn
    \/ Sigint

Next == WorkerStep \/ ProducerStep \/ ManagerStep

Spec == Init /\ [][Next]_vars

(* The same program with the clock running: collect_metrics polls with a   *)
(* 0.5 s get against a deadline (lines 328-335), so once it is collecting  *)
(* it does return.                                                         *)
SpecCollect == Spec /\ WF_vars(CollectReturn)

\* The steps of worker w.
WorkerActs(w) ==
    \/ WorkerReady(w)
    \/ WorkerCheckStop(w)
    \/ WorkerGetEmpty(w)
    \/ WorkerGet(w)
    \/ WorkerBulk(w)
    \/ WorkerSearch(w)
    \/ WorkerFinalize(w)

\* The steps of the thread that called run: all of ManagerStep but the signal.
RunActs ==
    \/ RunReset
    \/ RunClearQueue
    \/ RunInstallHandler
    \/ RunConstruct
    \/ RunnerStart
    \/ WaitUntilReady
    \/ RunSpawnProducer
    \/ RunJoinProducer
    \/ RunDrain
    \/ StopBegin
    \/ StopJoined
    \/ StopJoinTimeout
    \/ StopClear
    \/ CollectBegin
    \/ CollectGet
    \/ CollectReturn
    \/ RunReturn

\* The runs whose runner is constructed with the parameter it declares.
InitFair ==
    /\ config \in { c \in Configs : c.kwarg = "tag" }
    /\ lats = [w \in Workers |-> <<>>]
    /\ InitState

(* The program under fair scheduling: the calling thread, the producer     *)
(* thread and every worker process that can take a step eventually takes   *)
(* one, and the clock runs (a sleep, a join timeout or a get timeout       *)
(* ends).  Nothing forces an interrupt, a request outcome or a process     *)
(* that is blocked.                                                        *)
SpecFair ==
    /\ InitFair /\ [][Next]_vars
    /\ WF_vars(RunActs)
    /\ WF_vars(ProducerStep)
    /\ \A w \in Workers : WF_vars(WorkerActs(w))

\* -------------------------------------------- a later call of run
\* The document of a unit that an earlier run left in the queue.
OldDoc == 0

\* A unit of an earlier run of the kind c.
OldUnit(c) ==
    IF c.runner_type = INGEST THEN BatchPayload(<<OldDoc>>)
    ELSE SinglePayload(OldDoc)

(* What a call of run can find: a new Manager, or the remains of a run     *)
(* that returned cancelled, or of one that did not wait for the queue to   *)
(* drain: units in the queue, the counters, the old runner.                *)
Remains(c) ==
    {FirstCall}
    \cup
    { [queue |-> <<OldUnit(c)>>, total_produced |-> NumItems,
       stop_requested |-> b, runner |-> "LocustRunner"] : b \in BOOLEAN }

\* The configurations of the later call: a write run and a query run.
RerunConfigs ==
    { Config("tag", rt[1], rt[2], TRUE, TRUE, MaxRetries, NumItems)
        : rt \in {<<INGEST, "ingest">>, <<SEARCH, "search">>} }

(* A Manager on which run is called, possibly again: the old runner was    *)
(* stopped (stop flag set, workers ended, list cleared) and its ready      *)
(* counter stands where the old workers left it.                           *)
InitRerun ==
    /\ config \in RerunConfigs
    /\ prior \in Remains(config)
    /\ lats = [w \in Workers |-> <<>>]
    /\ mpc = "idle"
    /\ ppc = "idle"
    /\ taken = 0
    /\ batch = <<>>
    /\ queue = prior.queue
    /\ total_produced = prior.total_produced
    /\ stop_requested = prior.stop_requested
    /\ is_producing = FALSE
    /\ handler = "original"
    /\ runner = prior.runner
    /\ tag = IF prior.runner = None THEN None ELSE config.tagarg
    /\ stop_signal = (prior.runner # None)
    /\ ready_count = IF prior.runner = None THEN 0 ELSE NumWorkers
    /\ workers = {}
    /\ joinIdx = 0
    /\ metrics_queue = <<>>
    /\ worker_metrics = <<>>
    /\ reports = <<>>
    /\ result = <<>>
    /\ wpc = [w \in Workers |-> IF prior.runner = None THEN "none"
                                 ELSE IF prior.stop_requested THEN "killed"
                                 ELSE "exited"]
    /\ payload = [w \in Workers |-> NoPayload]
    /\ current_body = [w \in Workers |-> NoBody]
    /\ current_doc_count = [w \in Workers |-> 0]
    /\ retry_count = [w \in Workers |-> 0]
    /\ metrics = [w \in Workers |-> NewMetrics]
    /\ exc = [w \in Workers |-> None]
    /\ issued = [w \in Workers |-> 0]
    /\ base = [w \in Workers |-> 0]
    /\ rbase = [w \in Workers |-> 0]
    /\ gets = [u \in DocIds |-> 0]
    /\ enqueued = <<>>
    /\ late = 0
    /\ discarded = <<>>
    /\ errs = [w \in Workers |-> <<>>]
    /\ dicts = [w \in Workers |-> <<>>]
    /\ agg = <<>>
    /\ ready = <<>>

SpecRerun == InitRerun /\ [][Next]_vars

\* --------------------------------------- one large unit and its retries
(* A run in which the producer has put one batch of ScenarioDocs documents *)
(* and ended; worker 0 is about to dequeue it, the other workers are at    *)
(* the top of their loop; max_retries ranges over 0 .. ScenarioRetries.    *)
ScenarioUnit == BatchPayload([k \in 1 .. ScenarioDocs |-> k])

InitRetry ==
    /\ config \in { Config("tag", INGEST, "ingest", TRUE, TRUE, r, ScenarioDocs)
                      : r \in 0 .. ScenarioRetries }
    /\ mpc = "join"
    /\ ppc = "done"
    /\ taken = ScenarioDocs
    /\ batch = <<>>
    /\ queue = <<ScenarioUnit>>
    /\ total_produced = ScenarioDocs
    /\ stop_requested = FALSE
    /\ is_producing = FALSE
    /\ handler = "manager"
    /\ runner = "LocustRunner"
    /\ tag = "ingest"
    /\ stop_signal = FALSE
    /\ ready_count = NumWorkers
    /\ workers = Workers
    /\ joinIdx = 0
    /\ metrics_queue = <<>>
    /\ worker_metrics = <<>>
    /\ reports = <<>>
    /\ result = <<>>
    /\ wpc = [w \in Workers |-> IF w = 0 THEN "get" ELSE "loop"]
    /\ payload = [w \in Workers |-> NoPayload]
    /\ current_body = [w \in Workers |-> NoBody]
    /\ current_doc_count = [w \in Workers |-> 0]
    /\ retry_count = [w \in Workers |-> 0]
    /\ metrics = [w \in Workers |-> NewMetrics]
    /\ exc = [w \in Workers |-> None]
    /\ issued = [w \in Workers |-> 0]
    /\ base = [w \in Workers |-> 0]
    /\ rbase = [w \in Workers |-> 0]
    /\ gets = [u \in DocIds |-> 0]
    /\ enqueued = <<ScenarioUnit>>
    /\ late = 0
    /\ discarded = <<>>
    /\ errs = [w \in Workers |-> <<>>]
    /\ lats = [w \in Workers |-> <<>>]
    /\ dicts = [w \in Workers |-> <<>>]
    /\ agg = <<>>
    /\ ready = <<TRUE>>
    /\ prior = FirstCall

NextRetry == \E w \in Workers : WorkerGet(w) \/ WorkerBulk(w)

SpecRetry == InitRetry /\ [][NextRetry]_vars

\* ------------------------------------------- latency statistics (to_dict)
(* A latency value is a fraction num/den: a sample is a whole number of    *)
(* milliseconds, an average a quotient.  Python computes the quotients in  *)
(* floating point, whose rounding keeps the order (a <= b gives            *)
(* fl(a) <= fl(b)), so an order that holds for the exact fractions holds   *)
(* for the floats.                                                         *)
Frac(v) == [num |-> v, den |-> 1]
Leq(a, b) == a.num * b.den <= b.num * a.den
Lt(a, b) == a.num * b.den < b.num * a.den

\* Mutant of Idx: the position is rounded up.
IdxUp(n, pct) == (n * pct + 99) \div 100

\* int(len(latencies) * p) for p = pct / 100 (0.5, 0.95, 0.99).
Idx(n, pct) == (n * pct) \div 100

RECURSIVE Insert(_, _)
Insert(x, s) ==
    IF s = <<>> THEN <<x>>
    ELSE IF Leq(x, Head(s)) THEN <<x>> \o s
         ELSE <<Head(s)>> \o Insert(x, Tail(s))

\* Mutant of Sorted: the sample is used in its order of arrival.
Unsorted(s) == s

RECURSIVE Sorted(_)
\* sorted(latencies), lines 37 and 362.
Sorted(s) == IF s = <<>> THEN <<>> ELSE Insert(Head(s), Sorted(Tail(s)))

RECURSIVE SumSeq(_)
SumSeq(s) == IF s = <<>> THEN 0 ELSE Head(s) + SumSeq(Tail(s))

\* Lines 50-52 and 377-379: the three percentiles of a sorted, non-empty list.
Percentiles(latencies) ==
    LET n == Len(latencies)
    IN  [p50 |-> latencies[Idx(n, 50) + 1],
         p95 |-> IF n > 1 THEN latencies[Idx(n, 95) + 1] ELSE latencies[1],
         p99 |-> IF n > 1 THEN latencies[Idx(n, 99) + 1] ELSE latencies[1]]

(* to_dict, lines 37 and 43-52, for the latencies sample; request_count is *)
(* the number of samples, every request having appended one.              *)
ToDictLatency(sample) ==
    LET latencies == IF sample # <<>>
                     THEN Sorted([i \in 1 .. Len(sample) |-> Frac(sample[i])])
                     ELSE <<Frac(0)>>
        pc == Percentiles(latencies)
    IN  [request_count |-> Len(sample),
         avg_latency_ms |-> [num |-> SumSeq(sample), den |-> Len(latencies)],
         min_latency_ms |-> latencies[1],
         max_latency_ms |-> latencies[Len(latencies)],
         p50_latency_ms |-> pc.p50,
         p95_latency_ms |-> pc.p95,
         p99_latency_ms |-> pc.p99]

RECURSIVE AllLatencies(_)
\* Lines 356-360: each worker's average, once per request of the worker.
AllLatencies(ms) ==
    IF ms = <<>> THEN <<>>
    ELSE (IF Lt(Frac(0), Head(ms).avg_latency_ms)
          THEN [i \in 1 .. Head(ms).request_count |-> Head(ms).avg_latency_ms]
          ELSE <<>>)
         \o AllLatencies(Tail(ms))

\* collect_metrics, lines 356-362 and 377-379, over the accumulators ms.
CollectLatency(ms) ==
    LET all == AllLatencies(ms)
        all_latencies == IF all # <<>> THEN Sorted(all) ELSE <<Frac(0)>>
        pc == Percentiles(all_latencies)
    IN  [p50_latency_ms |-> pc.p50,
         p95_latency_ms |-> pc.p95,
         p99_latency_ms |-> pc.p99]

\* The samples a worker may have recorded: every short one, and long ones
\* of three runs of equal values in every order of the runs.
RunOf(v) ==
    [i \in 1 .. (IF v = 1 THEN LongRun + 2 ELSE IF v = 2 THEN LongRun ELSE 1)
        |-> v]

Samples ==
    UNION { [1 .. n -> 1 .. MaxLatency] : n \in 0 .. MaxSample }
    \cup { RunOf(pm[1]) \o RunOf(pm[2]) \o RunOf(pm[3])
              : pm \in Permutations({1, 2, 3}) }

\* The orders in which accumulators of distinct workers may be received.
Orders ==
    { o \in UNION { [1 .. n -> Workers] : n \in 0 .. NumWorkers }
        : \A i, j \in 1 .. Len(o) : i # j => o[i] # o[j] }

\* Worker w finalizes: to_dict() over its latencies.
PctToDict(w) ==
    /\ dicts[w] = <<>>
    /\ dicts' = [dicts EXCEPT ![w] = <<ToDictLatency(lats[w])>>]
    /\ UNCHANGED <<mvars, rvars, wvars, hvars, xvars, lats, agg>>
    /\ UNCHANGED bvars

\* collect_metrics over the accumulators received, in the order received.
PctCollect ==
    /\ \E o \in Orders :
          /\ \A i \in 1 .. Len(o) : dicts[o[i]] # <<>>
          /\ agg' = <<CollectLatency([i \in 1 .. Len(o) |-> dicts[o[i]][1]])>>
    /\ UNCHANGED <<mvars, rvars, wvars, hvars, xvars, lats, dicts>>
    /\ UNCHANGED bvars

InitPct ==
    /\ config = Config("tag", INGEST, "ingest", TRUE, TRUE, MaxRetries, NumItems)
    /\ lats \in [Workers -> Samples]
    /\ InitState

NextPct == (\E w \in Workers : PctToDict(w)) \/ PctCollect

SpecPct == InitPct /\ [][NextPct]_vars

\* ================================================================ claims
RECURSIVE SumOver(_, _)
\* The sum of field f of the accumulators of the workers of set S.
SumOver(S, f) ==
    IF S = {} THEN 0
    ELSE LET w == CHOOSE x \in S : TRUE IN metrics[w][f] + SumOver(S \ {w}, f)

\* A run that ended gracefully: nothing cancelled, blocking enqueue, the
\* queue drained, every worker left through finalize, run returned.
GracefulRun ==
    /\ mpc = "returned"
    /\ result # <<>>
    /\ ~stop_requested
    /\ config.block /\ config.wait
    /\ tag \in {"ingest", "search"}
    /\ ppc = "done"
    /\ queue = <<>>
    /\ \A w \in Workers : wpc[w] = "exited"

(* C1: after a graceful run with no cancellation, the total_docs of all    *)
(* worker accumulators sum to the Manager's total_produced, whatever the   *)
(* requests returned.                                                      *)
C1_TotalDocsEqualsProduced ==
    GracefulRun => SumOver(Workers, "total_docs") = total_produced

(* C2: when _execute_bulk_with_retry finishes a unit, success_count plus   *)
(* fail_count have grown, over all attempts, by the unit's doc_count.      *)
C2_UnitAccounted ==
    [][\A w \in Workers :
          (wpc[w] = "bulk" /\ wpc'[w] = "loop")
              => (metrics'[w].success_count + metrics'[w].fail_count) - base[w]
                   = payload[w].doc_count]_vars

\* A worker finished a unit that took a retry and ended with both
\* successes and permanent failures.
C2_Witness ==
    \E w \in Workers :
        /\ wpc[w] = "loop"
        /\ metrics[w].retry_count >= 1
        /\ metrics[w].success_count >= 1
        /\ metrics[w].fail_count >= 1

(* C3: for one batch unit a worker issues at most max_retries + 1 bulk     *)
(* requests, whatever the attempts return.                                 *)
C3_AtMostRPlusOneRequests ==
    \A w \in Workers : issued[w] <= config.max_retries + 1

\* A unit that used its whole budget: max_retries + 1 requests, retries > 0.
C3_Witness ==
    \E w \in Workers :
        /\ tag = "ingest"
        /\ config.max_retries >= 1
        /\ issued[w] = config.max_retries + 1
        /\ wpc[w] = "loop"

\* A worker leaves its loop: the step from the loop test to finalize.
Leaves(w) == wpc[w] = "loop" /\ wpc'[w] = "finalize"

(* C4, as claimed: a worker leaves its processing loop only when the stop  *)
(* flag is set and the shared queue is empty.                              *)
C4_LeavesOnlyWhenDrained ==
    [][\A w \in Workers : Leaves(w) => (stop_signal /\ queue = <<>>)]_vars

(* C4, amended: a worker leaves its processing loop only when it has       *)
(* observed the stop flag set, whether or not units are still queued, and  *)
(* never while it holds a dequeued unit.                                   *)
C4_LeavesOnlyOnStopFlag ==
    [][\A w \in Workers :
          Leaves(w) => (stop_signal /\ payload[w] = NoPayload)]_vars

\* A worker has left its loop on the stop flag while a unit is still queued.
C4_Witness ==
    \E w \in Workers :
        wpc[w] \in {"finalize", "exited"} /\ stop_signal /\ queue # <<>>

(* C5, as claimed: an exception of whatever kind raised by the request     *)
(* call is caught; no request ends the worker.                             *)
C5_NoRequestEndsWorker ==
    \A w \in Workers : wpc[w] # "crashed"

(* C5, amended: an OpenSearchException raised by the request call is       *)
(* caught at the call and accounted as a failure (one error recorded, and  *)
(* fail_count or retry_count advanced), and the worker goes on; only an    *)
(* exception of another class ends the worker.                             *)
C5_OpenSearchExceptionContained ==
    /\ [](\A w \in Workers : wpc[w] = "crashed" <=> exc[w] = "Exception")
    /\ [][\A w \in Workers :
            metrics'[w].errors # metrics[w].errors
                => /\ metrics'[w].errors = metrics[w].errors + 1
                   /\ metrics'[w].request_count = metrics[w].request_count + 1
                   /\ (metrics'[w].fail_count + metrics'[w].retry_count
                         > metrics[w].fail_count + metrics[w].retry_count)
                   /\ wpc'[w] \in {"bulk", "loop"}]_vars

\* A worker went on to finalize after a request of its raised and was caught.
C5_Witness ==
    \E w \in Workers : metrics[w].errors >= 1 /\ wpc[w] = "exited"

RECURSIVE DocsIn(_)
\* The documents covered by a sequence of payloads.
DocsIn(ps) == IF ps = <<>> THEN 0 ELSE Head(ps).doc_count + DocsIn(Tail(ps))

\* The enqueue the producer uses never drops: block, or single mode.
BlockingEnqueue ==
    config.block \/ config.runner_type \in {SEARCH, SEARCH_WITH_RECALL}

\* The items pulled from the source that are not yet in an enqueued unit.
InHand ==
    IF ppc \in {"batch_loop", "batch_put", "batch_after", "batch_flush"}
    THEN Len(batch)
    ELSE IF ppc = "single_put" THEN 1 ELSE 0

(* C6: with blocking enqueue no produced unit is dropped: every item       *)
(* pulled is in a unit that was enqueued and counted in total_produced, or *)
(* in the batch still being filled, or in the unit the producer is waiting *)
(* to put; and the queue never holds more than its capacity.               *)
C6_BlockingNeverDrops ==
    /\ Len(queue) <= QueueSize
    /\ (BlockingEnqueue /\ ~stop_requested)
          => /\ DocsIn(enqueued) = total_produced
             /\ taken = total_produced + InHand

\* More units than the queue holds went through it, the producer having
\* waited on the full queue, and every item was counted.
C6_Witness ==
    /\ config.block /\ config.runner_type = INGEST
    /\ Len(enqueued) > QueueSize
    /\ total_produced = NumItems

(* C7: with block=False a unit that finds the queue full is dropped        *)
(* silently: produce neither raises nor suspends, in batch mode (full and  *)
(* trailing batch) and in single mode.                                     *)
C7_NonBlockingDropsSilently ==
    ~config.block =>
        /\ ppc # "raised"
        /\ ppc \notin {"idle", "done"} => ENABLED ProducerStep

RECURSIVE TotalGets(_)
\* The number of dequeues of the units of set S.
TotalGets(S) ==
    IF S = {} THEN 0
    ELSE LET u == CHOOSE x \in S : TRUE IN gets[u] + TotalGets(S \ {u})

(* C8: every unit put on the shared queue is dequeued at most once and is  *)
(* never put back: the queue always holds exactly the units the producer   *)
(* enqueued that no worker has taken yet, and a worker holds only a unit   *)
(* it dequeued.                                                            *)
C8_ConsumedAtMostOnce ==
    /\ \A u \in DocIds : gets[u] <= 1
    /\ TotalGets(DocIds) <= Len(enqueued)
    /\ queue = SubSeq(enqueued, TotalGets(DocIds) + 1, Len(enqueued))
    /\ \A w \in Workers :
          payload[w] # NoPayload => gets[UnitOf(payload[w])] = 1
    /\ \A v, w \in Workers :
          (v # w /\ payload[v] # NoPayload) => payload[v] # payload[w]

\* A worker is retrying part of a unit while the other holds another unit.
C8_Witness ==
    \E v, w \in Workers :
        /\ v # w
        /\ wpc[v] = "bulk" /\ retry_count[v] >= 1
        /\ wpc[w] = "bulk"

RECURSIVE CountOf(_, _)
\* How many accumulators of worker w a sequence of accumulators holds.
CountOf(ms, w) ==
    IF ms = <<>> THEN 0
    ELSE (IF Head(ms).runner_id = w THEN 1 ELSE 0) + CountOf(Tail(ms), w)

RECURSIVE CountInReports(_, _)
CountInReports(rs, w) ==
    IF rs = <<>> THEN 0
    ELSE CountOf(Head(rs).per_worker, w) + CountInReports(Tail(rs), w)

\* The accumulators worker w has pushed, wherever they are by now.
Pushed(w) ==
    CountOf(metrics_queue, w) + CountOf(worker_metrics, w)
        + CountInReports(reports, w)

(* C9, as claimed: every worker that has left its loop and ended has       *)
(* pushed exactly one accumulator, and no worker pushes earlier or twice.  *)
C9_EveryEndedWorkerPushedOnce ==
    \A w \in Workers :
        /\ Pushed(w) <= 1
        /\ Pushed(w) = 1 => wpc[w] = "exited"
        /\ wpc[w] \in {"exited", "crashed"} => Pushed(w) = 1

(* C9, amended: a worker pushes its accumulator at most once and only as   *)
(* its last step, after leaving the loop on the stop flag; a worker ended  *)
(* by an uncaught exception, or terminated by stop() before that step, has *)
(* pushed none.                                                            *)
C9_PushedOnceAtExit ==
    \A w \in Workers :
        Pushed(w) = (IF wpc[w] = "exited" THEN 1 ELSE 0)

\* Both workers ended after processing units and each pushed its accumulator.
C9_Witness ==
    \A w \in Workers :
        wpc[w] = "exited" /\ Pushed(w) = 1 /\ metrics[w].request_count >= 1

Totals(r) ==
    <<r.total_success, r.total_fail, r.total_docs, r.worker_count>>

\* collect_metrics was called twice and the first call received them all.
AllReportedThenAgain ==
    Len(reports) >= 2 /\ Len(reports[1].per_worker) = NumWorkers

(* C10, as claimed: once all workers have reported, a second               *)
(* collect_metrics returns the same totals as the first.                   *)
C10_SecondCallSameTotals ==
    AllReportedThenAgain => Totals(reports[2]) = Totals(reports[1])

(* C10, amended: once all workers have reported, a second collect_metrics  *)
(* receives nothing and returns the empty report (total_success,           *)
(* total_fail and total_docs 0, worker_count the configured number, no     *)
(* per-worker entry); no accumulator is counted in both reports.           *)
C10_SecondCallEmpty ==
    AllReportedThenAgain =>
        /\ Totals(reports[2]) = <<0, 0, 0, NumWorkers>>
        /\ reports[2].per_worker = <<>>
        /\ \A w \in Workers : CountInReports(reports, w) <= 1

\* Two calls, the first with all accumulators and documents counted.
C10_Witness ==
    AllReportedThenAgain /\ reports[1].total_docs >= 1

\* The workers whose accumulator report r holds.
ReceivedBy(r) == { r.per_worker[i].runner_id : i \in 1 .. Len(r.per_worker) }

\* stop(force=True) found a worker still running and terminated it.
ForcedStop == \E w \in Workers : wpc[w] = "killed"

(* C11: after stop(force=True) issued while workers are still processing,  *)
(* collect_metrics receives fewer than worker_count accumulators, raises   *)
(* nothing, and the totals it returns are the sums over the accumulators   *)
(* of exactly the workers it received.                                     *)
C11_ForcedStopPartialAggregate ==
    ForcedStop =>
        /\ mpc # "raised"
        /\ \A i \in 1 .. Len(reports) :
              LET r == reports[i] IN
                /\ Len(r.per_worker) < NumWorkers
                /\ Cardinality(ReceivedBy(r)) = Len(r.per_worker)
                /\ \A w \in ReceivedBy(r) : wpc[w] = "exited"
                /\ r.total_success = SumOver(ReceivedBy(r), "success_count")
                /\ r.total_fail = SumOver(ReceivedBy(r), "fail_count")
                /\ r.total_docs = SumOver(ReceivedBy(r), "total_docs")

\* One worker was killed by the forced stop, the other had delivered an
\* accumulator with successes, and the report holds that one accumulator.
C11_Witness ==
    /\ ForcedStop
    /\ Len(reports) >= 1
    /\ Len(reports[1].per_worker) = NumWorkers - 1
    /\ reports[1].total_success >= 1

(* C12: the worker_count field of every report equals the number of        *)
(* accumulators actually received, also when none was received.            *)
C12_WorkerCountIsReceived ==
    \A i \in 1 .. Len(reports) :
        reports[i].worker_count = Len(reports[i].per_worker)

(* C13, as claimed: once cancellation has been requested the producer      *)
(* pulls no further item from the source.                                  *)
C13_NoPullAfterCancel ==
    [][stop_requested => taken' = taken]_vars

\* The documents covered by a sequence of payloads.
Covered(ps) ==
    UNION { { ps[i].body[k][2] : k \in 1 .. Len(ps[i].body) }
              : i \in 1 .. Len(ps) }

(* C13, amended: the flag is tested after each item is pulled and before   *)
(* it is used: once cancellation has been requested the producer pulls at  *)
(* most one further item, that item is discarded (it enters no batch and   *)
(* no unit), and the producer then leaves its loop.                        *)
C13_AtMostOnePullAfterCancel ==
    /\ late <= 1
    /\ late = 1 =>
          /\ ppc \in {"batch_after", "end", "done"}
          /\ taken \notin Covered(enqueued)
          /\ \A k \in 1 .. Len(batch) : batch[k] # taken

\* The producer was cancelled after enqueuing a unit, pulled one more item
\* and stopped with items left in the source.
C13_Witness ==
    /\ late = 1
    /\ total_produced >= 1
    /\ taken < config.items
    /\ ppc = "done"

(* C14: when the batch-mode producer stops because of cancellation, the    *)
(* partially accumulated batch is discarded: none of its items is ever     *)
(* enqueued or added to total_produced, which counts exactly the items of  *)
(* the units enqueued.                                                     *)
C14_CancelledBatchDiscarded ==
    /\ DocsIn(enqueued) = total_produced
    /\ \A k \in 1 .. Len(discarded) : discarded[k] \notin Covered(enqueued)
    /\ discarded # <<>> => (stop_requested /\ ppc \in {"end", "done"})

\* A cancelled producer ended having enqueued a full batch and dropped a
\* partial one.
C14_Witness ==
    /\ discarded # <<>>
    /\ total_produced >= 1
    /\ ppc = "done"

C16_InterruptForcesShutdown ==
    /\ [](mpc \in {"returned", "raised"} => handler = "original")
    /\ [][(~stop_requested /\ stop_requested')
            => (stop_signal' /\ \A w \in Workers : wpc'[w] \in Dead)]_vars

(* C16, amended: run has its handler installed only between line 243 and   *)
(* its exit, and on every exit (return, cancelled run, exception) the      *)
(* earlier handler is installed again.  On an interrupt the handler sets   *)
(* the cancellation flag, calls runner.stop(force=True) only if a runner   *)
(* has been constructed, and reinstalls the earlier handler itself, so it  *)
(* handles at most one interrupt per run.                                  *)
C16_HandlerRestored ==
    /\ [](mpc \in {"idle", "clear", "install", "returned", "raised"}
            => handler = "original")
    /\ [](stop_requested => handler = "original")
    /\ [][(~stop_requested /\ stop_requested')
            => /\ handler = "manager" /\ handler' = "original"
               /\ runner # None
                    => (stop_signal' /\ workers' = {}
                        /\ \A w \in Workers : wpc'[w] \in (Dead \cup {"none"}))
               /\ runner = None
                    => (stop_signal' = stop_signal /\ wpc' = wpc)]_vars

\* A run that was interrupted while workers were running has returned.
C16_Witness ==
    /\ mpc = "returned"
    /\ stop_requested
    /\ ForcedStop
    /\ handler = "original"

\* ceil(n / b)
Ceil(n, b) == (n + b - 1) \div b

\* The documents of the i-th batch of a source of n items.
BatchDocs(i, n) ==
    [k \in 1 .. (IF i * BulkSize <= n THEN BulkSize ELSE n - (i - 1) * BulkSize)
        |-> (i - 1) * BulkSize + k]

(* C18: in batch mode with blocking enqueue and no cancellation, a source  *)
(* of n items yields exactly ceil(n / bulk_size) units: each but possibly  *)
(* the last covers bulk_size items, the trailing partial batch is flushed, *)
(* and the doc_counts sum to n (10 units for 1000 items in batches of 100).*)
C18_CeilUnits ==
    /\ Ceil(1000, 100) = 10
    /\ (config.runner_type = INGEST /\ config.block /\ ~stop_requested
          /\ ppc \in {"end", "done"})
          => /\ Len(enqueued) = Ceil(config.items, BulkSize)
             /\ \A i \in 1 .. Len(enqueued) :
                   enqueued[i] = BatchPayload(BatchDocs(i, config.items))
             /\ \A i \in 1 .. Len(enqueued) - 1 :
                   enqueued[i].doc_count = BulkSize
             /\ DocsIn(enqueued) = config.items
             /\ total_produced = config.items

\* The producer ended after a full batch and a flushed partial batch.
C18_Witness ==
    /\ config.runner_type = INGEST /\ config.block /\ ~stop_requested
    /\ ppc = "done"
    /\ Len(enqueued) >= 2
    /\ enqueued[Len(enqueued)].doc_count < BulkSize

\* Every request so far was answered without an item error or an exception.
CleanRun ==
    \A w \in Workers :
        metrics[w].errors = 0 /\ metrics[w].retry_count = 0
            /\ metrics[w].fail_count = 0

\* run returned after a graceful, uncancelled write run of clean requests
\* whose workers all delivered their accumulator.
CleanWriteRunReturned ==
    /\ mpc = "returned" /\ result # <<>>
    /\ config.runner_type = INGEST
    /\ config.block /\ config.wait /\ ~stop_requested
    /\ \A w \in Workers : wpc[w] = "exited"
    /\ Len(result[1].report.per_worker) = NumWorkers
    /\ CleanRun

\* The report of C19: everything produced succeeded.
AllSucceeded ==
    /\ result[1].report.total_success = config.items
    /\ result[1].report.total_fail = 0
    /\ LET rate == result[1].report.success_rate
       IN  rate.num = (IF config.items > 0 THEN rate.den ELSE 0)
    /\ result[1].total_produced = config.items

(* C19: a graceful, uncancelled write run of n items whose requests all    *)
(* succeed returns from Manager.run a report with total_success = n,       *)
(* total_fail = 0, success_rate = 1 and total_produced = n.                *)
C19_CleanRunReportsAll ==
    config.runner_type = INGEST =>
        /\ mpc # "raised"
        /\ CleanWriteRunReturned => AllSucceeded

\* C19 for workers started with the dispatch string "ingest" (which
\* Manager.run cannot hand them): the report is as claimed.
C19_CleanRunWithIngestTag ==
    (CleanWriteRunReturned /\ tag = "ingest") => AllSucceeded

(* C17: for any non-empty latency sample the percentiles taken at index    *)
(* floor(p * count) of the sorted sample satisfy p50 <= p95 <= p99, in a   *)
(* worker's to_dict and in the aggregate of collect_metrics.               *)
C17_PercentilesOrdered ==
    /\ \A w \in Workers :
          dicts[w] # <<>> =>
              /\ Leq(dicts[w][1].p50_latency_ms, dicts[w][1].p95_latency_ms)
              /\ Leq(dicts[w][1].p95_latency_ms, dicts[w][1].p99_latency_ms)
    /\ agg # <<>> =>
          /\ Leq(agg[1].p50_latency_ms, agg[1].p95_latency_ms)
          /\ Leq(agg[1].p95_latency_ms, agg[1].p99_latency_ms)

\* A worker's sample, recorded out of order, whose three percentiles
\* differ, and an aggregate whose median is below its p95.
C17_Witness ==
    /\ \E w \in Workers :
          /\ dicts[w] # <<>>
          /\ Len(lats[w]) > 1
          /\ lats[w][1] > lats[w][Len(lats[w])]
          /\ Lt(dicts[w][1].p50_latency_ms, dicts[w][1].p95_latency_ms)
          /\ Lt(dicts[w][1].p95_latency_ms, dicts[w][1].p99_latency_ms)
    /\ agg # <<>>
    /\ Lt(agg[1].p50_latency_ms, agg[1].p95_latency_ms)

RECURSIVE SeqOfSet(_)
\* The elements of a set of numbers in increasing order.
SeqOfSet(S) ==
    IF S = {} THEN <<>>
    ELSE LET m == CHOOSE x \in S : \A y \in S : x <= y
         IN  <<m>> \o SeqOfSet(S \ {m})

\* The bulk body of the documents of set S, in their original order.
BodyOf(S) == CreateBulkBody(SeqOfSet(S))

\* Worker w holds the unit of ScenarioDocs items, whose first attempt
\* reported 3 item errors, and is about to send again.
After1(w) ==
    /\ wpc[w] = "bulk"
    /\ payload[w].doc_count = ScenarioDocs
    /\ Len(errs[w]) = 1
    /\ Cardinality(errs[w][1]) = 3 /\ -1 \notin errs[w][1]

\* ... and whose second attempt then reported 1 item error.
After2(w) ==
    /\ wpc[w] = "bulk"
    /\ payload[w].doc_count = ScenarioDocs
    /\ Len(errs[w]) = 2
    /\ Cardinality(errs[w][1]) = 3 /\ -1 \notin errs[w][1]
    /\ Cardinality(errs[w][2]) = 1 /\ -1 \notin errs[w][2]

(* C20, as claimed: with max_retries = 2, once attempt 1 of a batch of 10  *)
(* has reported 3 item errors and attempt 2 one error, retries are         *)
(* exhausted and the unit ends with success 9, fail 1, retry_count 1.      *)
C20_ScenarioAsStated ==
    \A w \in Workers :
        (config.max_retries = 2 /\ Len(errs[w]) = 2
           /\ Cardinality(errs[w][1]) = 3 /\ Cardinality(errs[w][2]) = 1
           /\ -1 \notin (errs[w][1] \cup errs[w][2]))
          => /\ wpc[w] # "bulk"
             /\ metrics[w].success_count = ScenarioDocs - 1
             /\ metrics[w].fail_count = 1
             /\ metrics[w].retry_count = 1

(* C20, amended: after attempt 1 with 3 item errors success_count has      *)
(* grown by 7 and the retry carries exactly the 3 failed items.  If        *)
(* attempt 2 reports 1 error, the unit ends there with success 9, fail 1,  *)
(* retry_count 1 only when max_retries = 1; with max_retries = 2 the one   *)
(* failed item is sent a third time (success 9, fail 0, retry_count 2 so   *)
(* far), and if that attempt fails too the unit ends with success 9,       *)
(* fail 1, retry_count 2.                                                  *)
C20_RetryScenario ==
    /\ [](\A w \in Workers :
            After1(w) =>
                /\ config.max_retries >= 1
                /\ metrics[w].success_count = ScenarioDocs - 3
                /\ metrics[w].fail_count = 0
                /\ metrics[w].retry_count = 1
                /\ current_doc_count[w] = 3
                /\ current_body[w] = BodyOf(errs[w][1]))
    /\ [](\A w \in Workers :
            After2(w) =>
                /\ config.max_retries >= 2
                /\ metrics[w].success_count = ScenarioDocs - 1
                /\ metrics[w].fail_count = 0
                /\ metrics[w].retry_count = 2
                /\ current_doc_count[w] = 1
                /\ errs[w][2] \subseteq errs[w][1]
                /\ current_body[w] = BodyOf(errs[w][2]))
    /\ [][\A w \in Workers :
            (After1(w) /\ wpc'[w] = "loop" /\ metrics'[w].fail_count = 1)
                => /\ config.max_retries = 1
                   /\ issued'[w] = 2
                   /\ metrics'[w].success_count = ScenarioDocs - 1
                   /\ metrics'[w].retry_count = 1]_vars
    /\ [][\A w \in Workers :
            (After2(w) /\ wpc'[w] = "loop" /\ metrics'[w].fail_count = 1)
                => /\ config.max_retries = 2
                   /\ issued'[w] = 3
                   /\ metrics'[w].success_count = ScenarioDocs - 1
                   /\ metrics'[w].retry_count = 2]_vars

\* With max_retries = 2 a worker is about to send the one item that failed
\* twice for the third time.
C20_Witness ==
    \E w \in Workers : After2(w) /\ config.max_retries = 2

(* C21: wait_until_ready returns True only if the ready counter reached    *)
(* num_workers, and False when the timeout elapses first.  A False result  *)
(* is not fatal: run raises nothing, goes on to start the producer, and a  *)
(* worker that becomes ready later still takes units from the queue.       *)
C21_BarrierResultNonFatal ==
    /\ [](ready = <<TRUE>> => ready_count = NumWorkers)
    /\ [][(ready = <<>> /\ ready' # <<>>)
            => /\ ready' = <<ready_count >= NumWorkers>>
               /\ mpc = "barrier" /\ mpc' = "spawn"]_vars
    /\ [](ready # <<>> => mpc # "raised")
    /\ [](mpc = "spawn" => ENABLED RunSpawnProducer)
    /\ [][(mpc = "spawn" /\ mpc' # "spawn")
            => (mpc' = "join" /\ ppc' = "start")]_vars
    /\ [](\A w \in Workers :
            (wpc[w] = "get" /\ queue # <<>>) => ENABLED WorkerGet(w))

\* The barrier timed out, the run went on and returned, and every worker,
\* so also each one that became ready after the barrier, served a request.
C21_Witness ==
    /\ ready = <<FALSE>>
    /\ mpc = "returned"
    /\ \A w \in Workers : metrics[w].request_count >= 1

(* C22: collect_metrics always terminates: it takes accumulators only      *)
(* while fewer than worker_count have been received, never more than       *)
(* worker_count, stops at the latest when its timeout elapses, and returns *)
(* a report without failing also when fewer than worker_count, or none,    *)
(* arrived.                                                                *)
C22_CollectTerminates ==
    /\ [](Len(worker_metrics) <= NumWorkers)
    /\ [][worker_metrics' # worker_metrics /\ worker_metrics' # <<>>
            => /\ mpc = "collecting" /\ Len(worker_metrics) < NumWorkers
               /\ Len(worker_metrics') = Len(worker_metrics) + 1]_vars
    /\ [](mpc = "collecting" => ENABLED CollectReturn)
    /\ [][(mpc = "collecting" /\ mpc' # "collecting")
            => /\ Len(reports') = Len(reports) + 1
               /\ Len(reports'[Len(reports')].per_worker) = Len(worker_metrics)
               /\ mpc' \in {"finish", "returned"}]_vars
    /\ (mpc = "collecting") ~> (mpc # "collecting")

\* collect_metrics has returned once with some of the accumulators and
\* once with none.
C22_Witness ==
    \E i, j \in 1 .. Len(reports) :
        /\ Len(reports[i].per_worker) \in 1 .. (NumWorkers - 1)
        /\ reports[j].per_worker = <<>>

RECURSIVE FieldSum(_, _, _)
\* The sum of field f over the first n accumulators of the list ms.
FieldSum(ms, f, n) == IF n = 0 THEN 0 ELSE ms[n][f] + FieldSum(ms, f, n - 1)

\* The five totals of report r are the sums over the accumulators it holds,
\* which are those of distinct workers as they delivered them, and its
\* success_rate is total_success / (total_success + total_fail), or 0.
SumsOverReceived(r) ==
    LET ms == r.per_worker
        n == Len(ms)
    IN  /\ Cardinality(ReceivedBy(r)) = n
        /\ \A k \in 1 .. n : ms[k] = ToDict(ms[k].runner_id, metrics[ms[k].runner_id])
        /\ r.total_success = FieldSum(ms, "success_count", n)
        /\ r.total_fail = FieldSum(ms, "fail_count", n)
        /\ r.total_requests = FieldSum(ms, "request_count", n)
        /\ r.total_retries = FieldSum(ms, "retry_count", n)
        /\ r.total_errors = FieldSum(ms, "error_count", n)
        /\ IF r.total_success + r.total_fail = 0
           THEN r.success_rate.num = 0
           ELSE /\ r.success_rate.den > 0
                /\ r.success_rate.num * (r.total_success + r.total_fail)
                     = r.total_success * r.success_rate.den

(* C23: every report of collect_metrics has total_success, total_fail,     *)
(* total_requests, total_retries and total_errors, each the sum of the     *)
(* per-worker field over exactly the accumulators received, and            *)
(* success_rate = total_success / (total_success + total_fail), or 0 when  *)
(* that sum is 0.                                                          *)
C23_EveryReportHasSums ==
    \A i \in 1 .. Len(reports) :
        /\ {"total_requests", "total_retries", "total_errors"}
              \subseteq DOMAIN reports[i]
        /\ SumsOverReceived(reports[i])

\* C23 for the reports over at least one accumulator, which are as claimed;
\* the report of a call that received nothing lacks three of the totals.
C23_SumsOverReceived ==
    \A i \in 1 .. Len(reports) :
        LET r == reports[i] IN
          IF r.per_worker # <<>>
          THEN SumsOverReceived(r)
          ELSE /\ r.total_success = 0 /\ r.total_fail = 0
               /\ r.success_rate.num = 0
               /\ DOMAIN r \cap {"total_requests", "total_retries", "total_errors"}
                    = {}

\* The documents a bulk body covers.
DocsOfBody(body) == { body[k][2] : k \in 1 .. Len(body) }

\* The lines of a body that belong to the documents of set F, in their order.
LinesOf(body, F) ==
    LET keep == SeqOfSet({ k \in 1 .. Len(body) : body[k][2] \in F })
    IN  [j \in 1 .. Len(keep) |-> body[keep[j]]]

\* Worker w's request was answered with item errors and is followed by
\* another request of the same unit.
RetriesFailedItems(w) ==
    /\ wpc[w] = "bulk" /\ wpc'[w] = "bulk"
    /\ Len(errs'[w]) = Len(errs[w]) + 1
    /\ -1 \notin errs'[w][Len(errs'[w])]

(* C24: after a bulk response with item errors, if the retry budget is not *)
(* exhausted the next request carries exactly the action and source lines  *)
(* of the items the response marked failed, matched by item index, in      *)
(* their original order, and nothing else: no item that succeeded is sent  *)
(* again; and failures become permanent only with the budget exhausted.    *)
C24_RetryCarriesFailedItems ==
    /\ [][\A w \in Workers :
            RetriesFailedItems(w) =>
                LET F == errs'[w][Len(errs'[w])] IN
                  /\ F # {} /\ F \subseteq DocsOfBody(current_body[w])
                  /\ retry_count[w] < config.max_retries
                  /\ current_body'[w] = LinesOf(current_body[w], F)
                  /\ current_body'[w] = BodyOf(F)
                  /\ current_doc_count'[w] = Cardinality(F)]_vars
    /\ [][\A w \in Workers :
            (wpc[w] = "bulk" /\ metrics'[w].errors = metrics[w].errors
               /\ metrics'[w].fail_count > metrics[w].fail_count)
              => retry_count[w] = config.max_retries]_vars

\* A worker is about to send the last item of the batch alone, after a
\* first response that marked the second and the last item failed and a
\* second response that marked only the last.
C24_Witness ==
    \E w \in Workers :
        /\ wpc[w] = "bulk"
        /\ errs[w] = <<{2, ScenarioDocs}, {ScenarioDocs}>>
        /\ current_body[w] = CreateBulkBody(<<ScenarioDocs>>)

\* Worker w's request raised an exception that was caught.
RaisedCaught(w) ==
    wpc[w] = "bulk" /\ metrics'[w].errors = metrics[w].errors + 1

(* C25: when a bulk attempt raises a transport-level exception, the next   *)
(* attempt sends the whole current sub-batch again, unchanged (same body,  *)
(* same item count), while the retry budget allows; with the budget        *)
(* exhausted the whole current sub-batch is added to fail_count; in both   *)
(* cases the attempt records no success.                                   *)
C25_ExceptionRetriesWholeSubBatch ==
    [][\A w \in Workers :
          RaisedCaught(w) =>
              /\ metrics'[w].success_count = metrics[w].success_count
              /\ metrics'[w].request_count = metrics[w].request_count + 1
              /\ IF retry_count[w] < config.max_retries
                 THEN /\ wpc'[w] = "bulk"
                      /\ current_body'[w] = current_body[w]
                      /\ current_doc_count'[w] = current_doc_count[w]
                      /\ retry_count'[w] = retry_count[w] + 1
                      /\ metrics'[w].retry_count = metrics[w].retry_count + 1
                      /\ metrics'[w].fail_count = metrics[w].fail_count
                 ELSE /\ wpc'[w] = "loop"
                      /\ metrics'[w].retry_count = metrics[w].retry_count
                      /\ metrics'[w].fail_count
                           = metrics[w].fail_count + current_doc_count[w]]_vars

\* A unit of which 3 items failed in the first response, whose retry raised
\* twice: the 3 items were sent again unchanged and then given up.
C25_Witness ==
    \E w \in Workers :
        /\ wpc[w] = "loop"
        /\ issued[w] = 3
        /\ metrics[w].errors = 2
        /\ metrics[w].success_count = ScenarioDocs - 3
        /\ metrics[w].fail_count = 3
        /\ metrics[w].retry_count = 2

(* C26: retry_count counts retry attempts, not retried documents: over one *)
(* batch unit the accumulator's retry_count grows by exactly the number of *)
(* requests issued for the unit less one, hence by at most max_retries;    *)
(* the requests of a unit are issued one at a time, by the one worker that *)
(* holds it.                                                               *)
C26_RetryCountCountsAttempts ==
    /\ [][\A w \in Workers :
            (wpc[w] = "bulk" /\ wpc'[w] = "loop")
              => /\ metrics'[w].retry_count - rbase[w] = issued'[w] - 1
                 /\ issued'[w] - 1 <= config.max_retries]_vars
    /\ [](\A w \in Workers :
            wpc[w] = "bulk"
              => /\ metrics[w].retry_count - rbase[w] = issued[w]
                 /\ issued[w] <= config.max_retries)
    /\ [][\A w \in Workers :
            /\ issued'[w] <= issued[w] + 1
            /\ metrics'[w].request_count - metrics[w].request_count
                 \in {0, 1}]_vars
    /\ [](\A v, w \in Workers :
            (v # w /\ wpc[v] = "bulk" /\ wpc[w] = "bulk")
              => UnitOf(payload[v]) # UnitOf(payload[w]))

\* A worker served both units with one retry each, the first retry sending
\* both documents of the batch again: 2 retries for 3 documents retried.
C26_Witness ==
    \E w \in Workers :
        /\ wpc[w] = "loop"
        /\ metrics[w].request_count = 4
        /\ metrics[w].retry_count = 2
        /\ metrics[w].total_docs = 6
        /\ metrics[w].errors = 0

SingleMode == config.runner_type \in {SEARCH, SEARCH_WITH_RECALL}

PastEntry ==
    { w \in Workers :
        wpc[w] \in {"loop", "get", "bulk", "search", "finalize", "exited",
                    "crashed"} }
Started == { w \in Workers : wpc[w] \notin {"none", "start"} }

(* C29: each worker increments the shared ready counter exactly once, on   *)
(* entry and before it dequeues anything; within one run ready_count only  *)
(* grows, by one per worker that enters, and never exceeds worker_count;   *)
(* the stop flag, once set, is never cleared for that run's workers.       *)
C29_ReadyAndStopMonotone ==
    /\ [](ready_count \in 0 .. NumWorkers)
    /\ [](Cardinality(PastEntry) <= ready_count
            /\ ready_count <= Cardinality(Started))
    /\ [](\A w \in Workers : payload[w] # NoPayload => w \in Started)
    /\ [][ready_count' # ready_count
            => /\ ready_count' = ready_count + 1
               /\ \E w \in Workers :
                     /\ wpc[w] = "start" /\ wpc'[w] = "loop"
                     /\ \A v \in Workers \ {w} : wpc'[v] = wpc[v]
               /\ queue' = queue /\ gets' = gets]_vars
    /\ [][\A w \in Workers :
            /\ (wpc[w] = "start" /\ wpc'[w] \notin ({"start"} \cup Dead))
                  => (wpc'[w] = "loop" /\ ready_count' = ready_count + 1)
            /\ wpc[w] \notin {"none", "start"} => wpc'[w] \notin {"none", "start"}
            /\ wpc[w] = "start" => wpc'[w] # "none"]_vars
    /\ [][stop_signal => stop_signal']_vars

\* Every worker became ready, one of them only after the barrier had timed
\* out, served requests and ended on the stop flag.
C29_Witness ==
    /\ ready = <<FALSE>>
    /\ ready_count = NumWorkers
    /\ stop_signal
    /\ \A w \in Workers : wpc[w] = "exited"
    /\ \E w \in Workers : metrics[w].request_count >= 1

\* The positions of run up to the return of wait_until_ready.
BeforeProducing ==
    {"idle", "clear", "install", "construct", "start", "barrier", "raised"}

(* C30: in run all workers are spawned and wait_until_ready has returned   *)
(* before the producer enqueues its first work unit: while the barrier is  *)
(* being waited on the producer thread does not exist and nothing is put   *)
(* on the queue.                                                           *)
C30_BarrierBeforeProducing ==
    /\ mpc \in BeforeProducing
          => (ppc = "idle" /\ enqueued = <<>> /\ queue = <<>> /\ taken = 0)
    /\ mpc = "barrier" => (ready = <<>> /\ \A w \in Workers : wpc[w] # "none")
    /\ (ppc # "idle" \/ enqueued # <<>>)
          => /\ ready # <<>>
             /\ \A w \in Workers : wpc[w] # "none"
             /\ mpc \notin BeforeProducing

\* The barrier timed out; a unit is on the queue while a worker that was
\* spawned before has not yet signalled that it is ready.
C30_Witness ==
    /\ ready = <<FALSE>>
    /\ queue # <<>>
    /\ \E w \in Workers : wpc[w] = "start"

(* C31: in an uncancelled run with wait_for_completion the Manager sets    *)
(* the stop flag only after the producer has finished and the shared queue *)
(* has been observed empty: the stop flag is never set while a unit of the *)
(* run is still in the queue.                                              *)
C31_StopAfterDrain ==
    /\ [](config.wait /\ ~stop_requested /\ stop_signal
            => /\ queue = <<>>
               /\ ppc \in {"done", "raised"}
               /\ mpc \notin {"join", "drain", "stop"})
    /\ [][(config.wait /\ ~stop_requested' /\ ~stop_signal /\ stop_signal')
            => (mpc = "stop" /\ queue = <<>> /\ ppc \in {"done", "raised"})]_vars

\* The stop flag was set in an uncancelled run with wait_for_completion
\* whose queue, filled beyond its capacity, had drained, while a worker was
\* still sending the unit it had taken.
C31_Witness ==
    /\ config.wait /\ ~stop_requested /\ stop_signal
    /\ Len(enqueued) > QueueSize
    /\ \E w \in Workers : wpc[w] = "bulk"

\* The runner receives the Manager's own runner_type, as in lines 247-253.
HandsOwnKind == config.tagarg = config.runner_type

\* The path a worker must take for the Manager's task kind.
PathOfKind ==
    IF config.runner_type = INGEST THEN "bulk" ELSE "search"

(* C32: the task kind configured on the Manager is the task kind every     *)
(* worker of the run dispatches on: the runner is constructed with it, for *)
(* a write-kind Manager every dequeued unit goes through                   *)
(* execute-with-retry, for a query-kind Manager every dequeued unit goes   *)
(* through the single-request query path.                                  *)
C32_WorkersDispatchOnManagerKind ==
    /\ [](HandsOwnKind /\ config.runner_type \in {INGEST, SEARCH}
            => mpc # "raised")
    /\ [][\A w \in Workers :
            (/\ HandsOwnKind /\ config.runner_type \in {INGEST, SEARCH}
             /\ wpc[w] = "get" /\ wpc'[w] # "get" /\ gets' # gets)
            => wpc'[w] = PathOfKind]_vars

\* The same for workers that were handed the dispatch string of the kind.
C32_DispatchOnString ==
    [][\A w \in Workers :
        (/\ ~HandsOwnKind /\ config.runner_type \in {INGEST, SEARCH}
         /\ wpc[w] = "get" /\ wpc'[w] # "get" /\ gets' # gets)
        => wpc'[w] = PathOfKind]_vars

(* C33: Manager.run always eventually returns after an interactive         *)
(* interrupt: whenever the interrupt handler fires during a run (including *)
(* while the producer is suspended on a full queue and all workers have    *)
(* been terminated), the producer thread finishes and run() returns a      *)
(* report.                                                                 *)
C33_InterruptedRunReturns ==
    stop_requested ~> (ppc \in {"done", "raised"} /\ mpc = "returned")

\* The same for an interrupt that finds the producer not about to put.
C33_ReturnsUnlessPutting ==
    (stop_requested /\ ppc \notin {"batch_put", "batch_flush", "single_put"})
        ~> (mpc = "returned" \/ ppc \in {"batch_put", "batch_flush", "single_put"})

(* C34: for a finite source and no interrupt, Manager.run eventually       *)
(* returns a report (under fair scheduling of producer and workers) for    *)
(* every worker count, every queue capacity and every sequence of request  *)
(* outcomes, including requests that raise: the producer is never left     *)
(* suspended forever on a full queue and the drain wait never loops        *)
(* forever.                                                                *)
C34_UninterruptedRunReturns ==
    <>(mpc = "returned" \/ stop_requested)

\* The same as long as some worker process of the run has not crashed.
C34_ReturnsWhileAWorkerLives ==
    <>(\/ mpc = "returned"
       \/ stop_requested
       \/ \A w \in Workers : wpc[w] = "crashed")

(* C35: in every run, cancelled or not, the report returned by Manager.run *)
(* satisfies total_success + total_fail <= total_produced: no item is      *)
(* counted as finished more than once and no item is counted that the      *)
(* producer did not count as produced.                                     *)
C35_FinishedWithinProduced ==
    result # <<>> =>
        /\ result[1].report.total_success + result[1].report.total_fail
              <= result[1].total_produced
        /\ result[1].total_produced = DocsIn(enqueued)

\* A cancelled run returned a report that counts some, but not all, of the
\* items the producer counted, one of them as failed.
C35_Witness ==
    /\ result # <<>>
    /\ stop_requested
    /\ result[1].report.total_fail >= 1
    /\ result[1].report.total_success >= 1
    /\ result[1].report.total_success + result[1].report.total_fail
          < result[1].total_produced

\* success_count + fail_count of an accumulator.
Finished(m) == m.success_count + m.fail_count

\* Worker w is through with the unit it dequeued: it is back at the loop test.
UnitLeft(w) ==
    \/ wpc[w] \in {"bulk", "search"} /\ wpc'[w] = "loop"
    \/ wpc[w] = "get" /\ wpc'[w] = "loop" /\ gets' # gets

\* The documents of the unit worker w has in hand or is taking from the queue.
UnitDocs(w) ==
    IF wpc[w] = "get" THEN Head(queue).doc_count ELSE payload[w].doc_count

(* C36: every work unit a worker dequeues is accounted in that worker's    *)
(* accumulator before the worker pulls the next unit or finalizes: for     *)
(* each dequeued unit success_count + fail_count grows by the unit's       *)
(* doc_count, whatever dispatch tag the worker was started with.           *)
C36_EveryDequeuedUnitAccounted ==
    [][\A w \in Workers :
          UnitLeft(w)
              => Finished(metrics'[w])
                   - (IF wpc[w] = "get" THEN Finished(metrics[w]) ELSE base[w])
                   = UnitDocs(w)]_vars

\* The same for workers started with one of the two dispatch strings.
C36_AccountedUnderDispatchString ==
    [][\A w \in Workers :
          (tag \in {"ingest", "search"} /\ UnitLeft(w))
              => Finished(metrics'[w])
                   - (IF wpc[w] = "get" THEN Finished(metrics[w]) ELSE base[w])
                   = UnitDocs(w)]_vars

\* The units of a sequence of payloads.
UnitsOf(q) == { q[i] : i \in 1 .. Len(q) }

(* C37: each call of Manager.run starts from a clean state: total_produced *)
(* and the cancellation flag are reset, work units left in the queue by a  *)
(* previous run are removed before any worker of the new run is spawned,   *)
(* and a fresh stop flag and ready counter are used, so the new run's      *)
(* workers never process a unit of an earlier run and the report's         *)
(* total_produced counts only the new run's items.                         *)
C37_RunStartsClean ==
    /\ mpc = "clear" => (total_produced = 0 /\ ~stop_requested)
    /\ mpc \in {"idle", "clear"} => \A w \in Workers : ~Alive(w)
    /\ mpc \notin {"idle", "clear"} => UnitsOf(queue) \cap UnitsOf(prior.queue) = {}
    /\ mpc = "start" => (ready_count = 0 /\ (stop_signal => stop_requested))
    /\ ready_count <= NumWorkers
    /\ \A w \in Workers : payload[w] \notin UnitsOf(prior.queue)
    /\ total_produced = IF mpc = "idle" THEN prior.total_produced
                        ELSE DocsIn(enqueued)
    /\ result # <<>> => result[1].total_produced = DocsIn(enqueued)

\* A run called on a Manager whose earlier run was cancelled and left a
\* unit behind returned uncancelled, all its own items produced and done.
C37_Witness ==
    /\ prior.queue # <<>>
    /\ prior.stop_requested
    /\ mpc = "returned"
    /\ ~stop_requested
    /\ result[1].total_produced = NumItems
    /\ result[1].report.total_success + result[1].report.total_fail = NumItems
    /\ result[1].report.worker_count = NumWorkers

\* produce with a task kind that is neither write nor query did nothing.
ProducedNothing ==
    /\ taken = 0
    /\ enqueued = <<>>
    /\ queue = <<>>
    /\ total_produced = 0
    /\ ppc = "done" => ~is_producing

(* C38: when the Manager's task kind is neither write nor query            *)
(* (RunnerType.UNKNOWN), produce() pulls nothing from the source and       *)
(* enqueues nothing, total_produced stays 0, is_producing is false again   *)
(* afterwards, and Manager.run still stops the workers and returns a       *)
(* report instead of raising.                                              *)
C38_UnknownKindRunReturns ==
    config.runner_type = UNKNOWN =>
        /\ ProducedNothing
        /\ mpc # "raised"
        /\ mpc = "returned" =>
              /\ result # <<>>
              /\ \A w \in Workers : ~Alive(w)

\* The same for a runner that was constructed: but for the raise, as claimed.
C38_UnknownKindProducesNothing ==
    config.runner_type = UNKNOWN =>
        /\ ProducedNothing
        /\ mpc = "raised" => runner = None
        /\ mpc = "returned" =>
              /\ result # <<>>
              /\ result[1].total_produced = 0
              /\ \A w \in Workers : ~Alive(w)

\* A run of unknown kind returned its report, the source untouched.
C38_ReturnedWithTag ==
    /\ config.runner_type = UNKNOWN
    /\ mpc = "returned"
    /\ ppc = "done"
    /\ ~stop_requested

(* C39: in every state of a worker's accumulator, request_count equals the *)
(* number of recorded latency samples and the number of recorded errors    *)
(* never exceeds request_count: each request attempt, answered or raising  *)
(* an exception the worker catches, adds exactly one latency sample and    *)
(* one to request_count.                                                   *)
C39_OneSamplePerRequest ==
    /\ [](\A w \in Workers :
            /\ metrics[w].latencies = metrics[w].request_count
            /\ metrics[w].errors <= metrics[w].request_count)
    /\ [][\A w \in Workers :
            (issued'[w] = issued[w] + 1 /\ wpc'[w] # "crashed")
                => /\ metrics'[w].request_count = metrics[w].request_count + 1
                   /\ metrics'[w].latencies = metrics[w].latencies + 1
                   /\ metrics'[w].errors \in
                         {metrics[w].errors, metrics[w].errors + 1}]_vars

\* A worker that has sent three requests, of which one raised and two
\* were answered.
C39_Witness ==
    \E w \in Workers :
        /\ metrics[w].request_count = 3
        /\ metrics[w].latencies = 3
        /\ metrics[w].errors = 1

\* The length of the list the percentiles are taken from: [0] for no sample.
ListLen(n) == IF n = 0 THEN 1 ELSE n

\* The positions lines 50-52 and 377-379 read in a sorted list of length n.
Positions(n) ==
    {Idx(n, 50)} \cup (IF n > 1 THEN {Idx(n, 95), Idx(n, 99)} ELSE {0})

\* The number of latencies collect_metrics rebuilds from the workers in o.
RebuiltLen(o) == SumSeq([i \in 1 .. Len(o) |-> Len(lats[o[i]])])

\* The values of a list of fractions.
ValuesOf(s) == { s[i] : i \in 1 .. Len(s) }

(* C40: for every sample size n >= 0 the percentile positions used by      *)
(* to_dict and collect_metrics (floor(0.5 n), floor(0.95 n),               *)
(* floor(0.99 n), with the fallback to the single element when n <= 1)     *)
(* are valid indices of the sorted sample, so computing the report never   *)
(* indexes out of range.                                                   *)
C40_PercentilePositionsValid ==
    /\ \A w \in Workers :
          LET n == ListLen(Len(lats[w]))
          IN  /\ Positions(n) \subseteq 0 .. (n - 1)
              /\ dicts[w] # <<>> =>
                    {dicts[w][1].p50_latency_ms, dicts[w][1].p95_latency_ms,
                     dicts[w][1].p99_latency_ms}
                        \subseteq ValuesOf([i \in 1 .. n |->
                                     IF lats[w] = <<>> THEN Frac(0)
                                     ELSE Frac(lats[w][i])])
    /\ \A o \in Orders :
          LET n == ListLen(RebuiltLen(o))
          IN  Positions(n) \subseteq 0 .. (n - 1)

\* to_dict was computed for a worker without a sample and for one with a
\* long sample, and the aggregate over both.
C40_Witness ==
    \E w, v \in Workers :
        /\ lats[w] = <<>> /\ dicts[w] # <<>>
        /\ Len(lats[v]) > MaxSample /\ dicts[v] # <<>>
        /\ agg # <<>>

====
